---- MODULE Spec2Model ----
(***************************************************************************)
(* Model of the cost-governed request pipeline of the GPT-5 MCP server:    *)
(*   - CostManager   (src/src/cost-manager.ts)  the usage ledger/governor  *)
(*   - handleConsultGPT5 (src/src/index.ts)     the single-shot flow       *)
(*   - GPT5Client    (src/src/openai-client.ts) the model gateway          *)
(* Money is counted in mills (1/1000 dollar); time in ticks, TicksPerDay   *)
(* ticks to a UTC day, tick 0 of a day being midnight.                     *)
(***************************************************************************)
EXTENDS Integers, Sequences, FiniteSets, TLC

(***************************************************************************)
(* Bounds of the model                                                     *)
(***************************************************************************)
TicksPerDay == 3
MaxHistory == 2
MaxAdvances == 2
MaxRequests == 2
MaxMessagesAdded == 4
MaxStarted == 2
MaxIds == 3
MaxTurns == 2
MaxResources == 2
MaxItems == 1

(***************************************************************************)
(* Program constants                                                       *)
(***************************************************************************)
RetentionDays == 30
ConfirmThresholdPercent == 10
RunawayMultiplier == 10
WarnPercent == 80
Retries == 3
DefaultContext == 10
ResourceMaxCount == 5

\* inputs
TaskIds == {"task-1", "task-2"}
CostValues == {0, 300, 4604, 9500, 25000}
LedgerCosts == {300, 4604}
DailyLimits == {0, 10000}
TaskLimits == {0, 2000}
Null == "<null>"
Requests == 1 .. MaxRequests
\* task_${Date.now()} of the requests: they start at distinct instants
TaskNames == <<"task_1", "task_2", "task_3", "task_4">>
\* pre-flight estimates: $0.035 (5000 effective tokens), $0.14 (the default 20000)
EstimateValues == {35, 140}
\* what the model call turns out to cost
ActualCosts == {300, 25000}
\* params.task_budget: absent, or $0.01
TaskBudgets == {<<>>, <<10>>}
ClockSteps == {2, RetentionDays * TicksPerDay - 1, RetentionDays * TicksPerDay}

VARIABLES
  now,            \* the wall clock (what new Date() returns), in ticks
  limits,         \* CostManager.limits
  dailyUsage,     \* CostManager.dailyUsage   : Map<day, number>
  taskUsage,      \* CostManager.taskUsage    : Map<taskId, number>
  usageHistory,   \* CostManager.usageHistory : UsageRecord[]
  currentTaskId,  \* CostManager.currentTaskId
  loadPending,    \* the constructor's initializeStorage() has not finished
  file,           \* dataDir/usage.json
  advances,       \* number of clock steps taken (bounded by MaxAdvances)
  lastCall,       \* what the most recent operation returned to its caller, when it
                  \* was checkAndRecordUsage: its arguments and its result
  persisted,      \* the in-memory ledger as it was at the last persistData()
  touched,        \* an operation ran on the instance while its initial load was pending
  req,            \* the consult_gpt5 requests: where each handler invocation stands
  gw,             \* one GPT5Client.createResponse call: where it stands
  store,          \* the ConversationManager: its conversations and its limits
  answer,         \* what the most recent ConversationManager query returned
  turn,           \* the continue_conversation requests: where each one stands
  digest          \* one processResources call: its payload and what it returned

ledgerVars == <<limits, dailyUsage, taskUsage, usageHistory, currentTaskId>>
vars == <<now, limits, dailyUsage, taskUsage, usageHistory, currentTaskId,
          loadPending, file, advances, lastCall, persisted, touched, req, gw,
          store, answer, turn, digest>>
conversationVars == <<store, answer, turn>>
serverVars == <<req, gw, conversationVars, digest>>
managerVars == <<now, limits, dailyUsage, taskUsage, usageHistory, currentTaskId,
                 loadPending, file, advances, lastCall, persisted, touched>>

(***************************************************************************)
(* Maps, dates, number formatting                                          *)
(***************************************************************************)
EmptyMap == [k \in {} |-> 0]

\* map.get(k) || 0
MapGet(m, k) == IF k \in DOMAIN m THEN m[k] ELSE 0

\* map.set(k, v)
MapSet(m, k, v) == [x \in (DOMAIN m) \cup {k} |-> IF x = k THEN v ELSE m[x]]

\* map.delete(k) for every k of ks
MapDelete(m, ks) == [x \in (DOMAIN m) \ ks |-> m[x]]

\* Array.from(map.entries())
EntriesOf(m) == {<<k, m[k]>> : k \in DOMAIN m}

\* new Map(entries)
NewMap(entries) ==
  [k \in {e[1] : e \in entries} |-> (CHOOSE e \in entries : e[1] = k)[2]]

\* date.toISOString(): the UTC calendar date and the time of day
ToISOString(ts) == [date |-> ts \div TicksPerDay, time |-> ts % TicksPerDay]

\* a parse that keeps the calendar date only
NewDateDateOnly(iso) == iso.date * TicksPerDay

\* new Date(isoString)
NewDate(iso) == iso.date * TicksPerDay + iso.time

\* date.toISOString().split("T")[0]: the day key
DayOf(ts) == ToISOString(ts).date

\* new Date(dayKey): a date-only string parses to UTC midnight of that day
DayStart(day) == day * TicksPerDay

\* amount.toFixed(2): mills to cents, halves rounded away from zero
ToFixed2(m) == IF m >= 0 THEN (m + 5) \div 10 ELSE -((-m + 5) \div 10)

RECURSIVE SumCost(_)
SumCost(recs) == IF recs = <<>> THEN 0 ELSE Head(recs).cost + SumCost(Tail(recs))

(***************************************************************************)
(* CostManager: the daily/task decision of checkAndRecordUsage             *)
(***************************************************************************)
NoReason == [text |-> "", amount |-> 0]

\* the daily check without the remaining-percentage test
NeedsConfirmationCostOnly(dailyTotal, cost, userConfirmed, lim) ==
  /\ lim.daily # 0
  /\ ~userConfirmed
  /\ cost > lim.daily - dailyTotal

\* the daily check without the cost-exceeds-remaining test
NeedsConfirmationPercentOnly(dailyTotal, cost, userConfirmed, lim) ==
  /\ lim.daily # 0
  /\ ~userConfirmed
  /\ (lim.daily - dailyTotal) * 100 <= ConfirmThresholdPercent * lim.daily

\* lines 52-64: the daily check; TRUE when the call must be confirmed first
NeedsConfirmation(dailyTotal, cost, userConfirmed, lim) ==
  LET remainingDaily == lim.daily - dailyTotal
  IN  /\ lim.daily # 0
      /\ ~userConfirmed
      /\ \/ remainingDaily * 100 <= ConfirmThresholdPercent * lim.daily
         \/ cost > remainingDaily

\* the runaway check comparing with the per-task ceiling itself
RunawayTaskNoMultiplier(taskTotal, cost, lim) ==
  /\ lim.perTask # 0
  /\ taskTotal + cost > lim.perTask

\* lines 66-79: the runaway check on the task's spending
RunawayTask(taskTotal, cost, lim) ==
  /\ lim.perTask # 0
  /\ taskTotal + cost > lim.perTask * RunawayMultiplier

\* the warnings with the 80% tests only
WarningsUsageOnly(dailyTotal, taskTotal, cost, lim) ==
  (IF lim.daily # 0 /\ (dailyTotal + cost) * 100 > WarnPercent * lim.daily
   THEN <<"Daily usage at">> ELSE <<>>)
    \o (IF lim.perTask # 0 /\ (taskTotal + cost) * 100 > WarnPercent * lim.perTask
        THEN <<"Task usage at">> ELSE <<>>)

\* lines 81-129: the informational warnings, in the order they are pushed
Warnings(dailyTotal, taskTotal, cost, lim) ==
  LET daily ==
        IF lim.daily = 0 THEN <<>>
        ELSE IF (dailyTotal + cost) * 100 > 100 * lim.daily THEN <<"Daily spending">>
        ELSE IF (dailyTotal + cost) * 100 > WarnPercent * lim.daily THEN <<"Daily usage at">>
        ELSE <<>>
      task ==
        IF lim.perTask = 0 THEN <<>>
        ELSE IF (taskTotal + cost) * 100 > 100 * lim.perTask THEN <<"Task spending">>
        ELSE IF (taskTotal + cost) * 100 > WarnPercent * lim.perTask THEN <<"Task usage at">>
        ELSE <<>>
  IN  daily \o task

\* the value checkAndRecordUsage returns
CheckResult(dailyTotal, taskTotal, cost, userConfirmed, lim) ==
  IF NeedsConfirmation(dailyTotal, cost, userConfirmed, lim)
  THEN [allowed |-> FALSE, needsConfirmation |-> TRUE,
        reason |-> [text |-> "Approaching daily limit",
                    amount |-> ToFixed2(lim.daily - dailyTotal)],
        warning |-> <<>>]
  ELSE IF RunawayTask(taskTotal, cost, lim)
  THEN [allowed |-> FALSE, needsConfirmation |-> FALSE,
        reason |-> [text |-> "Extremely high task spending",
                    amount |-> ToFixed2(taskTotal + cost)],
        warning |-> <<>>]
  ELSE [allowed |-> TRUE, needsConfirmation |-> FALSE, reason |-> NoReason,
        warning |-> Warnings(dailyTotal, taskTotal, cost, lim)]

(***************************************************************************)
(* CostManager: persistence                                                *)
(***************************************************************************)
NoFile == [exists |-> FALSE]

\* the in-memory ledger as one value
Ledger(lim, daily, task, hist, cur) ==
  [limits |-> lim, dailyUsage |-> daily, taskUsage |-> task,
   usageHistory |-> hist, currentTaskId |-> cur]

\* persistData: the JSON document written to usage.json
Serialize(l) ==
  [exists |-> TRUE,
   limits |-> l.limits,
   dailyUsage |-> EntriesOf(l.dailyUsage),
   taskUsage |-> EntriesOf(l.taskUsage),
   history |-> [i \in DOMAIN l.usageHistory |->
                  [timestamp |-> ToISOString(l.usageHistory[i].timestamp),
                   taskId |-> l.usageHistory[i].taskId,
                   cost |-> l.usageHistory[i].cost]],
   currentTaskId |-> l.currentTaskId]

\* `if (data.currentTaskId)`: null and the empty string are falsy
Truthy(x) == x # Null /\ x # ""

\* cleanupOldData, history part: keep the records newer than the cutoff
CleanHistory(hist, cutoff) ==
  SelectSeq(hist, LAMBDA r : r.timestamp > cutoff)

\* cleanupOldData without its daily part
CleanDailyNever(daily, cutoff) == daily

\* cleanupOldData, daily part: delete the days whose midnight is before the cutoff
CleanDaily(daily, cutoff) ==
  MapDelete(daily, {day \in DOMAIN daily : DayStart(day) < cutoff})

\* loadPersistedData applied to the constructor's state `l` at time `t`
Deserialize(data, l, t) ==
  LET cutoff == t - RetentionDays * TicksPerDay
      hist == [i \in DOMAIN data.history |->
                 [timestamp |-> NewDate(data.history[i].timestamp),
                  taskId |-> data.history[i].taskId,
                  cost |-> data.history[i].cost]]
  IN  Ledger([f \in DOMAIN l.limits |->
                IF f \in DOMAIN data.limits THEN data.limits[f] ELSE l.limits[f]],
             CleanDaily(NewMap(data.dailyUsage), cutoff),
             NewMap(data.taskUsage),
             CleanHistory(hist, cutoff),
             IF Truthy(data.currentTaskId) THEN data.currentTaskId
                                           ELSE l.currentTaskId)

\* a stored document that is not what persistData writes names, in `broken`,
\* where loading it throws: "json" when JSON.parse fails, else the first field
\* whose value has the wrong shape (dailyUsage or taskUsage that new Map()
\* cannot iterate, a history without map())
Broken(data) == IF "broken" \in DOMAIN data THEN data.broken ELSE "none"

\* loadPersistedData: the fields are assigned one after the other, and an
\* exception ends the load where it is thrown, before cleanupOldData
LoadPersistedData(data, l, t) ==
  LET merged == [f \in DOMAIN l.limits |->
                   IF f \in DOMAIN data.limits THEN data.limits[f] ELSE l.limits[f]]
  IN  IF Broken(data) = "json" THEN l
      ELSE IF Broken(data) = "dailyUsage" THEN [l EXCEPT !.limits = merged]
      ELSE IF Broken(data) = "taskUsage"
      THEN [l EXCEPT !.limits = merged, !.dailyUsage = NewMap(data.dailyUsage)]
      ELSE IF Broken(data) = "history"
      THEN [l EXCEPT !.limits = merged, !.dailyUsage = NewMap(data.dailyUsage),
                     !.taskUsage = NewMap(data.taskUsage)]
      ELSE Deserialize(data, l, t)

(***************************************************************************)
(* CostManager: the operations                                             *)
(***************************************************************************)
NoCall == [valid |-> FALSE]

Current == Ledger(limits, dailyUsage, taskUsage, usageHistory, currentTaskId)

Install(l) ==
  /\ limits' = l.limits
  /\ dailyUsage' = l.dailyUsage
  /\ taskUsage' = l.taskUsage
  /\ usageHistory' = l.usageHistory
  /\ currentTaskId' = l.currentTaskId

\* persistData (the write succeeds)
Persist(l) ==
  /\ file' = Serialize(l)
  /\ persisted' = l

\* recordUsage, were it to leave the task totals alone
RecordUsageDailyOnly(l, taskId, cost, t) ==
  Ledger(l.limits,
         MapSet(l.dailyUsage, DayOf(t), MapGet(l.dailyUsage, DayOf(t)) + cost),
         l.taskUsage,
         Append(l.usageHistory, [timestamp |-> t, taskId |-> taskId, cost |-> cost]),
         taskId)

\* recordUsage: the ledger after recording `cost` for `taskId` at time t
RecordUsage(l, taskId, cost, t) ==
  Ledger(l.limits,
         MapSet(l.dailyUsage, DayOf(t), MapGet(l.dailyUsage, DayOf(t)) + cost),
         MapSet(l.taskUsage, taskId, MapGet(l.taskUsage, taskId) + cost),
         Append(l.usageHistory, [timestamp |-> t, taskId |-> taskId, cost |-> cost]),
         taskId)

\* the history bound of the model: a call that would record is taken only while
\* the history has room
HasRoom(taskId, cost, userConfirmed) ==
  CheckResult(MapGet(dailyUsage, DayOf(now)), MapGet(taskUsage, taskId), cost,
              userConfirmed, limits).allowed
    => Len(usageHistory) < MaxHistory

\* checkAndRecordUsage(taskId, {estimatedCost: cost}, userConfirmed)
\* checkAndRecordUsage, were it to record the usage before it decides
CheckAndRecordUsageFirst(taskId, cost, userConfirmed) ==
  LET dailyTotal == MapGet(dailyUsage, DayOf(now))
      taskTotal == MapGet(taskUsage, taskId)
      result == CheckResult(dailyTotal, taskTotal, cost, userConfirmed, limits)
      after == RecordUsage(Current, taskId, cost, now)
  IN  /\ Install(after) /\ Persist(after)
      /\ lastCall' = [valid |-> TRUE, taskId |-> taskId, cost |-> cost,
                      userConfirmed |-> userConfirmed, result |-> result]
      /\ touched' = loadPending

CheckAndRecordUsage(taskId, cost, userConfirmed) ==
  LET dailyTotal == MapGet(dailyUsage, DayOf(now))
      taskTotal == MapGet(taskUsage, taskId)
      result == CheckResult(dailyTotal, taskTotal, cost, userConfirmed, limits)
      after == RecordUsage(Current, taskId, cost, now)
  IN  /\ IF result.allowed
         THEN Install(after) /\ Persist(after)
         ELSE UNCHANGED <<ledgerVars, file, persisted>>
      /\ lastCall' = [valid |-> TRUE, taskId |-> taskId, cost |-> cost,
                      userConfirmed |-> userConfirmed, result |-> result]
      /\ touched' = loadPending

\* updateLimits replacing the limits by the partial ones
AfterUpdateLimitsReplaced(l, partial) ==
  [l EXCEPT !.limits = [f \in DOMAIN l.limits |->
                          IF f \in DOMAIN partial THEN partial[f] ELSE 0]]

\* the ledger after updateLimits(partial): partial holds the fields that are
\* not undefined
AfterUpdateLimits(l, partial) ==
  [l EXCEPT !.limits = [f \in DOMAIN l.limits |->
                          IF f \in DOMAIN partial THEN partial[f] ELSE l.limits[f]]]

\* updateLimits(partial)
UpdateLimits(partial) ==
  LET after == AfterUpdateLimits(Current, partial)
  IN  /\ Install(after)
      /\ Persist(after)
      /\ lastCall' = NoCall
      /\ touched' = loadPending

\* the ledger after startNewTask(taskId)
AfterStartNewTask(l, taskId) ==
  [l EXCEPT !.currentTaskId = taskId,
            !.taskUsage = IF taskId \in DOMAIN l.taskUsage THEN l.taskUsage
                          ELSE MapSet(l.taskUsage, taskId, 0)]

\* startNewTask(taskId): nothing is persisted
StartNewTask(taskId) ==
  /\ Install(AfterStartNewTask(Current, taskId))
  /\ lastCall' = NoCall
  /\ touched' = loadPending
  /\ UNCHANGED <<file, persisted>>

\* new CostManager(lim0, dataDir) after the previous instance is discarded:
\* the fields get their initial values and initializeStorage() is started
Construct(lim0) ==
  /\ Install(Ledger(lim0, EmptyMap, EmptyMap, <<>>, Null))
  /\ loadPending' = TRUE
  /\ lastCall' = NoCall
  /\ touched' = FALSE
  /\ UNCHANGED <<now, file, advances, persisted>>

\* initializeStorage() finishes: loadPersistedData has read usage.json
LoadComplete ==
  /\ loadPending
  /\ loadPending' = FALSE
  /\ IF file.exists
     THEN Install(LoadPersistedData(file, Current, now))
     ELSE UNCHANGED ledgerVars
  /\ touched' = FALSE
  /\ UNCHANGED <<now, file, advances, lastCall, persisted>>

\* time passes (the initial load takes milliseconds: no tick passes meanwhile)
AdvanceClock(step) ==
  /\ ~loadPending
  /\ advances < MaxAdvances
  /\ now' = now + step
  /\ advances' = advances + 1
  /\ UNCHANGED <<ledgerVars, loadPending, file, lastCall, persisted, touched>>

\* the ceilings the constructor takes when neither its argument nor the
\* environment gives any: 10 dollars a day, 2 dollars a task
DefaultLimits == [daily |-> 10000, perTask |-> 2000]

LimitChoices == [daily : DailyLimits, perTask : TaskLimits]
PartialLimits ==
  [daily : DailyLimits] \cup [perTask : TaskLimits] \cup LimitChoices

\* new CostManager(lim0, dataDir) over a data directory holding doc
InitOver(lim0, doc) ==
  /\ now = 0
  /\ limits = lim0
  /\ dailyUsage = EmptyMap
  /\ taskUsage = EmptyMap
  /\ usageHistory = <<>>
  /\ currentTaskId = Null
  /\ loadPending = TRUE
  /\ file = doc
  /\ advances = 0
  /\ lastCall = NoCall
  /\ persisted = NoFile
  /\ touched = FALSE

InitManager(lim0) == InitOver(lim0, NoFile)

\* no request handler is part of the ledger specifications
InitLedger ==
  /\ \E lim0 \in LimitChoices : InitManager(lim0)
  /\ req = <<>>
  /\ gw = <<>>
  /\ store = <<>> /\ answer = <<>> /\ turn = <<>> /\ digest = <<>>

\* the governor of one running instance: any calls, limit changes, tasks
NextGovernor ==
  \/ \E t \in TaskIds, c \in CostValues, u \in BOOLEAN :
        /\ HasRoom(t, c, u)
        /\ CheckAndRecordUsage(t, c, u)
        /\ UNCHANGED <<now, loadPending, advances, serverVars>>
  \/ \E p \in PartialLimits :
        UpdateLimits(p) /\ UNCHANGED <<now, loadPending, advances, serverVars>>
  \/ \E t \in TaskIds :
        StartNewTask(t) /\ UNCHANGED <<now, loadPending, advances, serverVars>>
  \/ LoadComplete /\ UNCHANGED serverVars

SpecGovernor == InitLedger /\ [][NextGovernor]_vars

\* one instance with its ceilings fixed and no call ever confirmed
NextUnconfirmed ==
  \/ \E t \in TaskIds, c \in CostValues :
        /\ HasRoom(t, c, FALSE)
        /\ CheckAndRecordUsage(t, c, FALSE)
        /\ UNCHANGED <<now, loadPending, advances, serverVars>>
  \/ \E t \in TaskIds :
        StartNewTask(t) /\ UNCHANGED <<now, loadPending, advances, serverVars>>
  \/ LoadComplete /\ UNCHANGED serverVars
  \/ AdvanceClock(TicksPerDay) /\ UNCHANGED serverVars

SpecUnconfirmed == InitLedger /\ [][NextUnconfirmed]_vars

\* the ledger over its storage: recording, restarts, loads, retention
NextLedger ==
  \/ \E c \in LedgerCosts :
        /\ HasRoom("task-1", c, FALSE)
        /\ CheckAndRecordUsage("task-1", c, FALSE)
        /\ UNCHANGED <<now, loadPending, advances, serverVars>>
  \/ UpdateLimits([perTask |-> 0]) /\ UNCHANGED <<now, loadPending, advances, serverVars>>
  \/ StartNewTask("task-2") /\ UNCHANGED <<now, loadPending, advances, serverVars>>
  \/ Construct(DefaultLimits) /\ UNCHANGED serverVars
  \/ LoadComplete /\ UNCHANGED serverVars
  \/ \E s \in ClockSteps : AdvanceClock(s) /\ UNCHANGED serverVars

\* costs that meet the warning thresholds of the ceilings: $0.30, $1.70 (85% of
\* a $2 task ceiling), $8.20 (82% of the $10 daily ceiling), $2.50
WarningCosts == {300, 1700, 8200, 2500}

\* calls, confirmed or not, under each choice of ceilings
NextWarnings ==
  \/ \E t \in TaskIds, c \in WarningCosts, u \in BOOLEAN :
        /\ HasRoom(t, c, u)
        /\ CheckAndRecordUsage(t, c, u)
        /\ UNCHANGED <<now, loadPending, advances, serverVars>>
  \/ LoadComplete /\ UNCHANGED serverVars

SpecWarnings == InitLedger /\ [][NextWarnings]_vars

\* aggregateByDay: one entry a day, in the order the days first occur
RECURSIVE DailyMap(_, _)
DailyMap(records, entries) ==
  IF records = <<>> THEN entries
  ELSE LET record == Head(records)
           day == DayOf(record.timestamp)
           at == {i \in DOMAIN entries : entries[i].date = day}
       IN  DailyMap(Tail(records),
                    IF at # {}
                    THEN [i \in DOMAIN entries |->
                            IF i \in at
                            THEN [entries[i] EXCEPT !.cost = @ + record.cost]
                            ELSE entries[i]]
                    ELSE Append(entries, [date |-> day, cost |-> record.cost]))

\* sort((a, b) => new Date(a.date).getTime() - new Date(b.date).getTime())
RECURSIVE SortedByDate(_)
SortedByDate(entries) ==
  IF entries = <<>> THEN <<>>
  ELSE LET first == CHOOSE i \in DOMAIN entries :
                      \A j \in DOMAIN entries :
                        \/ DayStart(entries[i].date) < DayStart(entries[j].date)
                        \/ (DayStart(entries[i].date) = DayStart(entries[j].date)
                              /\ i <= j)
       IN  <<entries[first]>>
             \o SortedByDate([k \in 1 .. Len(entries) - 1 |->
                                IF k < first THEN entries[k] ELSE entries[k + 1]])

AggregateByDay(records) == SortedByDate(DailyMap(records, <<>>))

\* the start of the window of a period; a calendar month back is monthDays days
StartDate(period, t, monthDays) ==
  IF period = "week" THEN t - 7 * TicksPerDay
  ELSE IF period = "month" THEN t - monthDays * TicksPerDay
  ELSE DayStart(DayOf(t))

\* generateTaskReport(taskId)
TaskReport(l, taskId) ==
  [period |-> "current_task", label |-> taskId, startDate |-> 0,
   totalCost |-> MapGet(l.taskUsage, taskId),
   breakdown |-> [i \in DOMAIN SelectSeq(l.usageHistory,
                                         LAMBDA r : r.taskId = taskId) |->
                    [date |-> SelectSeq(l.usageHistory,
                                        LAMBDA r : r.taskId = taskId)[i].timestamp,
                     cost |-> SelectSeq(l.usageHistory,
                                        LAMBDA r : r.taskId = taskId)[i].cost]]]

\* generateReport(period) at time t
Report(l, period, t, monthDays) ==
  IF period = "current_task"
  THEN IF l.currentTaskId = Null
       THEN [period |-> period, label |-> "No current task", startDate |-> 0,
             totalCost |-> 0, breakdown |-> <<>>]
       ELSE TaskReport(l, l.currentTaskId)
  ELSE LET startDate == StartDate(period, t, monthDays)
           relevantHistory == SelectSeq(l.usageHistory,
                                        LAMBDA r : r.timestamp >= startDate)
       IN  [period |-> period, label |-> period, startDate |-> startDate,
            totalCost |-> SumCost(relevantHistory),
            breakdown |-> AggregateByDay(relevantHistory)]

Periods == {"current_task", "today", "week", "month"}

\* the days of the month before: 28 to 31
MonthLengths == {28, 31}

GenerateReport(period, monthDays) ==
  /\ answer' = Report(Current, period, now, monthDays)
  /\ UNCHANGED <<managerVars, req, gw, store, turn, digest>>

ReportSteps == {TicksPerDay, RetentionDays * TicksPerDay}

\* reports asked between calls, restarts and the passing of days
NextReports ==
  \/ \E t \in TaskIds :
        /\ HasRoom(t, 300, TRUE)
        /\ CheckAndRecordUsage(t, 300, TRUE)
        /\ UNCHANGED <<now, loadPending, advances, serverVars>>
  \/ Construct(DefaultLimits) /\ UNCHANGED serverVars
  \/ LoadComplete /\ UNCHANGED serverVars
  \/ \E step \in ReportSteps : AdvanceClock(step) /\ UNCHANGED serverVars
  \/ \E period \in Periods, m \in MonthLengths : GenerateReport(period, m)

InitReports == InitLedger /\ limits = DefaultLimits

SpecReports == InitReports /\ [][NextReports]_vars

\* getDailyReport() at time t: a ceiling of 0 reads as $10 a day, $5 a task
DailyReport(l, t) ==
  [usage |-> [daily |-> MapGet(l.dailyUsage, DayOf(t))],
   limits |-> [daily |-> IF l.limits.daily # 0 THEN l.limits.daily ELSE 10000,
               perTask |-> IF l.limits.perTask # 0 THEN l.limits.perTask ELSE 5000]]

\* GPT-5 pricing, $0.00125 for 1000 input tokens and $0.01 for 1000 output
\* tokens, as the tokens a mill buys
InputTokensPerMill == 800
OutputTokensPerMill == 100

MinimumTokens == 5000

\* max(0, limit - usage), in mills
RemainingBudget(report) ==
  IF report.limits.daily - report.usage.daily > 0
  THEN report.limits.daily - report.usage.daily ELSE 0

\* calculateMaxTokensFromBudget, were it to return the sum as it is
MaxTokensFromBudgetUnfloored(report, promptTokens) ==
  LET remainingBudget == RemainingBudget(report)
      maxInputFromBudget == (remainingBudget * 3 * InputTokensPerMill) \div 10
      maxOutputFromBudget == (remainingBudget * 7 * OutputTokensPerMill) \div 10
  IN  maxInputFromBudget + maxOutputFromBudget + promptTokens

\* calculateMaxTokensFromBudget(costManager, promptTokens), given the report:
\* 30% of the remaining budget buys input tokens, 70% output tokens
MaxTokensFromBudget(report, promptTokens) ==
  LET remainingBudget == RemainingBudget(report)
      maxInputFromBudget == (remainingBudget * 3 * InputTokensPerMill) \div 10
      maxOutputFromBudget == (remainingBudget * 7 * OutputTokensPerMill) \div 10
      maxTotalTokens == maxInputFromBudget + maxOutputFromBudget + promptTokens
  IN  IF maxTotalTokens > MinimumTokens THEN maxTotalTokens ELSE MinimumTokens

\* calculateMaxTokensFromBudget(costManager, promptTokens)
CalculateMaxTokensFromBudget(promptTokens) ==
  /\ answer' = [maxTokens |-> MaxTokensFromBudget(DailyReport(Current, now),
                                                  promptTokens),
                promptTokens |-> promptTokens,
                remainingBudget |-> RemainingBudget(DailyReport(Current, now))]
  /\ UNCHANGED <<managerVars, req, gw, store, turn, digest>>

\* estimateTokenCount of prompt and context: a short and a long prompt
PromptChoices == {100, 6000}

\* daily ceilings set while the day's spend grows: none, $0.004, $1, $10
CeilingLimits == {0, 4, 1000, 10000}

\* the ceiling is computed between calls, limit changes and days
NextCeiling ==
  \/ \E c \in LedgerCosts :
        /\ HasRoom("task-1", c, TRUE)
        /\ CheckAndRecordUsage("task-1", c, TRUE)
        /\ UNCHANGED <<now, loadPending, advances, serverVars>>
  \/ \E d \in CeilingLimits :
        UpdateLimits([daily |-> d]) /\ UNCHANGED <<now, loadPending, advances, serverVars>>
  \/ LoadComplete /\ UNCHANGED serverVars
  \/ AdvanceClock(TicksPerDay) /\ UNCHANGED serverVars
  \/ \E p \in PromptChoices : CalculateMaxTokensFromBudget(p)

SpecCeiling == InitLedger /\ [][NextCeiling]_vars

\* a checkAndRecordUsage call in progress: where it stands, its arguments, what
\* it decided, the document its persistData is writing, and the calls that
\* were suspended when it began
NoResult == [allowed |-> FALSE, needsConfirmation |-> FALSE, reason |-> NoReason,
             warning |-> <<>>]
IdleCall ==
  [pc |-> "idle", taskId |-> Null, cost |-> 0, userConfirmed |-> FALSE,
   result |-> NoResult, data |-> NoFile, during |-> {}]

\* the positions at which a call would be suspended, were there an await
\* between the checks and recordUsage's updates
AwaitPointsWithCheck == {"decided", "writing"}

\* the positions at which a call is suspended, other code running meanwhile:
\* only at persistData's `await fs.writeFile`; `await this.recordUsage(...)`
\* runs recordUsage up to there before it suspends
AwaitPoints == {"writing"}

\* one piece of the call's code, on the ledger l, the file f and the call c at
\* time t: the reads and the checks (lines 48-129); recordUsage's updates and
\* persistData's document (137-360); the end of the write and the return
Advance(w, t) ==
  LET c == w.call
  IN  IF c.pc = "called"
      THEN LET result == CheckResult(MapGet(w.ledger.dailyUsage, DayOf(t)),
                                     MapGet(w.ledger.taskUsage, c.taskId),
                                     c.cost, c.userConfirmed, w.ledger.limits)
           IN  [w EXCEPT !.call = [c EXCEPT !.result = result,
                                           !.pc = IF result.allowed THEN "decided"
                                                  ELSE "done"]]
      ELSE IF c.pc = "decided"
      THEN LET after == RecordUsage(w.ledger, c.taskId, c.cost, t)
           IN  [w EXCEPT !.ledger = after,
                         !.call = [c EXCEPT !.data = Serialize(after),
                                           !.pc = "writing"]]
      ELSE [w EXCEPT !.file = c.data, !.call = [c EXCEPT !.pc = "done"]]

\* the code runs on until the call is suspended or has returned
RECURSIVE RunSegment(_, _)
RunSegment(w, t) ==
  LET next == Advance(w, t)
  IN  IF next.call.pc \in AwaitPoints \cup {"done"} THEN next
      ELSE RunSegment(next, t)

Suspended == {k \in Requests : req[k].pc \notin {"idle", "done"}}

RunCall(k, c) ==
  LET w == RunSegment([ledger |-> Current, file |-> file, call |-> c], now)
  IN  /\ Install(w.ledger)
      /\ file' = w.file
      /\ req' = [req EXCEPT ![k] = w.call]
      /\ UNCHANGED <<now, loadPending, advances, lastCall, persisted, touched,
                     gw, conversationVars, digest>>

\* request k calls checkAndRecordUsage(taskId, {estimatedCost: cost}, userConfirmed)
BeginCall(k, taskId, cost, userConfirmed) ==
  /\ ~loadPending
  /\ req[k].pc = "idle"
  /\ RunCall(k, [IdleCall EXCEPT !.pc = "called", !.taskId = taskId, !.cost = cost,
                                 !.userConfirmed = userConfirmed,
                                 !.during = Suspended])

\* what call k awaits is settled: the call runs on
ResumeCall(k) ==
  /\ k \in Suspended
  /\ RunCall(k, req[k])

OverlapCosts == {300, 4604, 9500}

InitOverlap ==
  /\ \E lim0 \in LimitChoices : InitManager(lim0)
  /\ req = [k \in Requests |-> IdleCall]
  /\ gw = <<>> /\ store = <<>> /\ answer = <<>> /\ turn = <<>> /\ digest = <<>>

\* the requests call checkAndRecordUsage while earlier calls are in progress
NextOverlap ==
  \/ LoadComplete /\ UNCHANGED serverVars
  \/ \E k \in Requests, t \in TaskIds, c \in OverlapCosts, u \in BOOLEAN :
        BeginCall(k, t, c, u)
  \/ \E k \in Requests : ResumeCall(k)

SpecOverlap == InitOverlap /\ [][NextOverlap]_vars

\* the ceilings changed between calls and restarts
NextLimits ==
  \/ \E t \in TaskIds, c \in LedgerCosts :
        /\ HasRoom(t, c, TRUE)
        /\ CheckAndRecordUsage(t, c, TRUE)
        /\ UNCHANGED <<now, loadPending, advances, serverVars>>
  \/ \E p \in PartialLimits :
        UpdateLimits(p) /\ UNCHANGED <<now, loadPending, advances, serverVars>>
  \/ Construct(DefaultLimits) /\ UNCHANGED serverVars
  \/ LoadComplete /\ UNCHANGED serverVars

SpecLimits == InitLedger /\ [][NextLimits]_vars

InitStorage == InitLedger /\ limits = DefaultLimits

SpecLedger == InitStorage /\ [][NextLedger]_vars

\* what the data directory may hold when the server starts: nothing, a file
\* that is not JSON (a write cut short), JSON with a field of the wrong shape,
\* or what an earlier run persisted
StoredLimits == [daily |-> 1000, perTask |-> 500]

StoredDocuments ==
  {NoFile,
   [exists |-> TRUE, broken |-> "json"],
   [exists |-> TRUE, broken |-> "dailyUsage", limits |-> StoredLimits],
   [exists |-> TRUE, broken |-> "taskUsage", limits |-> StoredLimits,
    dailyUsage |-> {<<0, 300>>}],
   [exists |-> TRUE, broken |-> "history", limits |-> [daily |-> 10000],
    dailyUsage |-> {<<0, 300>>}, taskUsage |-> {<<"task-1", 300>>}],
   Serialize(RecordUsage(Ledger(StoredLimits, EmptyMap, EmptyMap, <<>>, Null),
                         "task-1", 300, 0))}

InitStored ==
  /\ \E lim0 \in LimitChoices, doc \in StoredDocuments : InitOver(lim0, doc)
  /\ req = <<>>
  /\ gw = <<>>
  /\ store = <<>> /\ answer = <<>> /\ turn = <<>> /\ digest = <<>>

\* the server's first calls over what it found
NextStored ==
  \/ LoadComplete /\ UNCHANGED serverVars
  \/ \E c \in LedgerCosts, u \in BOOLEAN :
        /\ HasRoom("task-2", c, u)
        /\ CheckAndRecordUsage("task-2", c, u)
        /\ UNCHANGED <<now, loadPending, advances, serverVars>>
  \/ AdvanceClock(TicksPerDay) /\ UNCHANGED serverVars

SpecStored == InitStored /\ [][NextStored]_vars

\* what an earlier run left in usage.json: one record of task-1
StoredUsage ==
  Serialize(RecordUsage(Ledger(StoredLimits, EmptyMap, EmptyMap, <<>>, Null),
                        "task-1", 300, 0))

\* initializeStorage() finishes: loadPersistedData installs the document that
\* its readFile returned, read at some moment since the constructor
LoadCompleteFrom(doc) ==
  /\ loadPending
  /\ loadPending' = FALSE
  /\ IF doc.exists
     THEN Install(LoadPersistedData(doc, Current, now))
     ELSE UNCHANGED ledgerVars
  /\ touched' = FALSE
  /\ UNCHANGED <<now, file, advances, lastCall, persisted>>

InitStartup ==
  /\ InitOver(DefaultLimits, StoredUsage)
  /\ req = <<>>
  /\ gw = <<>>
  /\ store = <<>> /\ answer = <<>> /\ turn = <<>> /\ digest = <<>>

\* the server's first calls, before or after the initial load has finished;
\* readFile returns what the file held before those calls or what it holds
\* after them
NextStartup ==
  \/ \E doc \in {StoredUsage, file} : LoadCompleteFrom(doc) /\ UNCHANGED serverVars
  \/ \E c \in LedgerCosts, u \in BOOLEAN :
        /\ HasRoom("task-2", c, u)
        /\ CheckAndRecordUsage("task-2", c, u)
        /\ UNCHANGED <<now, loadPending, advances, serverVars>>
  \/ \E p \in PartialLimits :
        UpdateLimits(p) /\ UNCHANGED <<now, loadPending, advances, serverVars>>
  \/ AdvanceClock(TicksPerDay) /\ UNCHANGED serverVars

SpecStartup == InitStartup /\ [][NextStartup]_vars

(***************************************************************************)
(* handleConsultGPT5: the single-shot flow                                 *)
(***************************************************************************)
\* the limits index.ts constructs the CostManager with
ServerLimits == [daily |-> 10000, perTask |-> 5000]

\* the errors an upstream call fails with: HTTP status (0: none) and message
ModelNotFound == [status |-> 404, message |-> "The model does not exist"]
ModelOverloaded == [status |-> 503, message |-> "That model is currently overloaded"]
RateLimited == [status |-> 429, message |-> "Rate limit reached"]
Unauthorized == [status |-> 401, message |-> "Incorrect API key provided"]
ConnectionError == [status |-> 0, message |-> "Connection error."]
\* a request the upstream refuses as invalid, in words that name the model
ContextTooLong ==
  [status |-> 400, message |-> "This model's maximum context length is 128000 tokens"]
UpstreamErrors ==
  {ModelNotFound, ModelOverloaded, RateLimited, Unauthorized, ConnectionError}

NoCompatibleModel == [status |-> 0, message |-> "No compatible model available"]

\* an error thrown without a message
Unexplained == [status |-> 0, message |-> ""]

\* what gpt5Client.createResponse can throw to a handler: an error the
\* fallback chain rethrows, or its own once no model is left
GatewayFailures == {Unauthorized, ConnectionError, NoCompatibleModel, Unexplained}

TaskOf(r) == TaskNames[r]

NoText == [text |-> "", taskId |-> ""]

\* thrown: what createResponse threw to the handler, if it did; handler: how
\* the handler's promise settled; result: the text it returned on an error
IdleRequest ==
  [pc |-> "idle", confirm |-> FALSE, estimate |-> 0, preCheck |-> NoResult,
   actual |-> 0, costCheck |-> NoResult, reply |-> "none",
   thrown |-> <<>>, handler |-> "pending", result |-> NoText]

\* error.message || fallback
MessageOr(err, fallback) == IF err.message # "" THEN err.message ELSE fallback

\* the positions of handleConsultGPT5 that its try block covers: the
\* pre-flight check and the call of the gateway, not startNewTask/updateLimits
ConsultTryUntilPreCheck == {"started"}

ConsultTry == {"started", "calling"}

\* the handler up to its first await: the task id, startNewTask and, when a
\* task budget is given, updateLimits({perTask: task_budget})
ConsultStart(r, confirm, budget) ==
  /\ req[r].pc = "idle"
  /\ LET started == AfterStartNewTask(Current, TaskOf(r))
         given == Len(budget) > 0 /\ budget[1] # 0
         after == IF given THEN AfterUpdateLimits(started, [perTask |-> budget[1]])
                  ELSE started
     IN  /\ Install(after)
         /\ IF given THEN Persist(after) ELSE UNCHANGED <<file, persisted>>
  /\ lastCall' = NoCall
  /\ touched' = loadPending
  /\ req' = [req EXCEPT ![r] = [@ EXCEPT !.pc = "started", !.confirm = confirm]]
  /\ UNCHANGED <<now, loadPending, advances, gw, conversationVars, digest>>

\* the estimate and the pre-flight check; the handler returns the confirmation
\* message when the result is not allowed and needs confirmation, and goes on
\* to gpt5Client.createResponse otherwise
ConsultPreCheck(r, est) ==
  /\ req[r].pc = "started"
  /\ CheckAndRecordUsage(TaskOf(r), est, req[r].confirm)
  /\ LET preCheck == lastCall'.result
         stop == ~preCheck.allowed /\ preCheck.needsConfirmation
     IN  req' = [req EXCEPT ![r] =
                   [@ EXCEPT !.estimate = est,
                             !.preCheck = preCheck,
                             !.pc = IF stop THEN "done" ELSE "calling",
                             !.handler = IF stop THEN "returned" ELSE @,
                             !.reply = IF stop THEN "confirmation required" ELSE @]]
  /\ UNCHANGED <<now, loadPending, advances, gw, conversationVars, digest>>

\* createResponse returned a response costing c: the second
\* checkAndRecordUsage, then the response text is returned
ConsultRespond(r, c) ==
  /\ req[r].pc = "calling"
  /\ CheckAndRecordUsage(TaskOf(r), c, req[r].confirm)
  /\ req' = [req EXCEPT ![r] =
               [@ EXCEPT !.actual = c,
                         !.costCheck = lastCall'.result,
                         !.pc = "done",
                         !.handler = "returned",
                         !.reply = "response"]]
  /\ UNCHANGED <<now, loadPending, advances, gw, conversationVars, digest>>

\* createResponse threw err: inside the try block the catch returns the error
\* text with the task id; outside it the handler's promise would reject
ConsultFail(r, err) ==
  /\ req[r].pc = "calling"
  /\ req' = [req EXCEPT ![r] =
               IF req[r].pc \in ConsultTry
               THEN [@ EXCEPT !.pc = "done", !.reply = "error", !.thrown = <<err>>,
                              !.handler = "returned",
                              !.result = [text |-> MessageOr(err, "Failed to consult GPT-5"),
                                          taskId |-> TaskOf(r)]]
               ELSE [@ EXCEPT !.pc = "done", !.thrown = <<err>>,
                              !.handler = "rejected"]]
  /\ UNCHANGED <<managerVars, gw, conversationVars, digest>>

InitPipeline ==
  /\ InitManager(ServerLimits)
  /\ req = [r \in Requests |-> IdleRequest]
  /\ gw = <<>>
  /\ store = <<>> /\ answer = <<>> /\ turn = <<>> /\ digest = <<>>

NextPipeline ==
  \/ \E r \in Requests, u \in BOOLEAN, b \in TaskBudgets : ConsultStart(r, u, b)
  \/ \E r \in Requests, e \in EstimateValues : ConsultPreCheck(r, e)
  \/ \E r \in Requests, c \in ActualCosts : ConsultRespond(r, c)
  \/ \E r \in Requests, err \in GatewayFailures : ConsultFail(r, err)
  \/ LoadComplete /\ UNCHANGED serverVars

SpecPipeline == InitPipeline /\ [][NextPipeline]_vars

\* the two requests whose handlers run together
Racers == {1, 2}

InitRace == InitPipeline

\* two unconfirmed requests without task budget, their steps in any order
NextRace ==
  \/ \E r \in Racers : ConsultStart(r, FALSE, <<>>)
  \/ \E r \in Racers, e \in EstimateValues : ConsultPreCheck(r, e)
  \/ \E r \in Racers, c \in ActualCosts : ConsultRespond(r, c)
  \/ \E r \in Racers, err \in GatewayFailures : ConsultFail(r, err)
  \/ LoadComplete /\ UNCHANGED serverVars

SpecRace == InitRace /\ [][NextRace]_vars

(***************************************************************************)
(* GPT5Client: createResponse, the fallback chain, requestWithRetry        *)
(***************************************************************************)
DefaultFallbackModels ==
  <<"gpt-4o", "gpt-4o-mini", "gpt-4-turbo-preview", "gpt-4-turbo", "gpt-4",
    "gpt-3.5-turbo">>

\* getFallbackModels(): OPENAI_FALLBACK_MODELS when it is set (its entries may
\* all be blank), the default list otherwise
FallbackLists == {DefaultFallbackModels, <<"gpt-4o-mini", "gpt-4o">>, <<>>}

\* error.message?.includes('model')
IncludesModel(message) ==
  message \in {"The model does not exist", "That model is currently overloaded",
               "No compatible model available",
               "This model's maximum context length is 128000 tokens"}

\* requestWithRetry's test, were it to retry every failure that has a status
RetriableAnyStatus(err) == err.status # 0

\* requestWithRetry: status === 429 || (status >= 500 && status < 600)
Retriable(err) == err.status = 429 \/ (err.status >= 500 /\ err.status < 600)

NoOutcome == [kind |-> "none"]

IdleGateway(models) ==
  [pc |-> "idle", models |-> models, stream |-> FALSE, tier |-> "primary",
   model |-> 0, attempt |-> 0, stuck |-> FALSE, timer |-> FALSE,
   aborted |-> FALSE, primaryCalls |-> 0, primaryFailed |-> FALSE,
   calls |-> <<>>, failedModels |-> 0, onlyModelErrors |-> TRUE,
   outcome |-> NoOutcome]

\* one pass of requestWithRetry's loop: a new AbortController, its timer armed,
\* fn() called; the controller's signal is not given to fn
CallUpstream(g, attempt) ==
  [g EXCEPT !.pc = "pending", !.attempt = attempt, !.stuck = FALSE,
            !.timer = TRUE, !.aborted = FALSE,
            !.primaryCalls = IF g.tier = "primary" THEN @ + 1 ELSE @,
            !.calls = IF g.tier = "fallback" THEN Append(@, g.models[g.model])
                      ELSE @]

Throw(g, err) ==
  [g EXCEPT !.pc = "done", !.outcome = [kind |-> "thrown", error |-> err]]

\* the response handed to the caller; a streamed one reports zero usage
Return(g) ==
  [g EXCEPT !.pc = "done", !.timer = FALSE,
            !.outcome = [kind |-> "returned", tier |-> g.tier,
                         zeroUsage |-> g.stream]]

\* fallbackToChatCompletions: the loop reaches the i-th model, or ends with
\* no response
TryModel(g, i) ==
  LET loop == [g EXCEPT !.tier = "fallback", !.model = i]
  IN  IF i > Len(g.models) THEN Throw(loop, NoCompatibleModel)
      ELSE CallUpstream(loop, 0)

\* createResponse's catch, were it to fall back on transient errors only
PrimaryCatchTransientOnly(g, err) ==
  IF Retriable(err) THEN TryModel(g, 1) ELSE Throw(g, err)

\* createResponse's catch: whatever the error, fall back
PrimaryCatch(g, err) == TryModel(g, 1)

\* the fallback loop's catch, without its test of the message
FallbackContinuesTransientOnly(err) ==
  err.status = 429 \/ (err.status # 0 /\ err.status >= 500)

\* the fallback loop's catch: TRUE when the loop goes on to the next model
FallbackContinues(err) ==
  \/ IncludesModel(err.message)
  \/ err.status = 429 \/ (err.status # 0 /\ err.status >= 500)

FallbackCatch(g, err) ==
  LET failed == [g EXCEPT !.failedModels = @ + 1,
                          !.onlyModelErrors = @ /\ IncludesModel(err.message)]
  IN  IF FallbackContinues(err) THEN TryModel(failed, g.model + 1)
      ELSE Throw(failed, err)

\* the error leaves requestWithRetry or the stream: the catch of the tier
Caught(g, err) ==
  IF g.tier = "primary" THEN PrimaryCatch([g EXCEPT !.primaryFailed = TRUE], err)
  ELSE FallbackCatch(g, err)

\* createResponse(params): the primary request goes out
CreateResponse(stream) ==
  /\ gw.pc = "idle"
  /\ gw' = CallUpstream([gw EXCEPT !.stream = stream], 0)
  /\ UNCHANGED <<managerVars, req, conversationVars, digest>>

\* fn() resolves: the timer is cleared and requestWithRetry returns; a stream
\* is then read to its end
AttemptResolves ==
  /\ gw.pc = "pending" /\ ~gw.stuck
  /\ gw' = IF gw.stream THEN [gw EXCEPT !.pc = "streaming", !.timer = FALSE]
           ELSE Return(gw)
  /\ UNCHANGED <<managerVars, req, conversationVars, digest>>

\* fn() rejects: retry after a delay, or throw to the tier's catch; the timer
\* of the attempt is left armed
AttemptRejects(err) ==
  /\ gw.pc = "pending" /\ ~gw.stuck
  /\ LET attempt == gw.attempt + 1
     IN  gw' = IF ~Retriable(err) \/ attempt > Retries
               THEN Caught([gw EXCEPT !.attempt = attempt], err)
               ELSE [gw EXCEPT !.pc = "backoff", !.attempt = attempt]
  /\ UNCHANGED <<managerVars, req, conversationVars, digest>>

\* the backoff delay has passed: the next pass of the loop
BackoffElapses ==
  /\ gw.pc = "backoff"
  /\ gw' = CallUpstream(gw, gw.attempt)
  /\ UNCHANGED <<managerVars, req, conversationVars, digest>>

\* the stream ends: the aggregated text is returned
StreamEnds ==
  /\ gw.pc = "streaming" /\ ~gw.stuck
  /\ gw' = Return(gw)
  /\ UNCHANGED <<managerVars, req, conversationVars, digest>>

\* the stream fails while it is read
StreamFails(err) ==
  /\ gw.pc = "streaming" /\ ~gw.stuck
  /\ gw' = Caught(gw, err)
  /\ UNCHANGED <<managerVars, req, conversationVars, digest>>

\* the upstream call, or the stream, is one that never completes
Stall ==
  /\ gw.pc \in {"pending", "streaming"} /\ ~gw.stuck
  /\ gw' = [gw EXCEPT !.stuck = TRUE]
  /\ UNCHANGED <<managerVars, req, conversationVars, digest>>

\* the per-attempt timeout elapses: controller.abort()
TimerFires ==
  /\ gw.timer
  /\ gw' = [gw EXCEPT !.timer = FALSE, !.aborted = TRUE]
  /\ UNCHANGED <<managerVars, req, conversationVars, digest>>

InitGateway ==
  /\ InitManager(ServerLimits)
  /\ req = <<>>
  /\ \E models \in FallbackLists : gw = IdleGateway(models)
  /\ store = <<>> /\ answer = <<>> /\ turn = <<>> /\ digest = <<>>

NextGateway ==
  \/ \E stream \in BOOLEAN : CreateResponse(stream)
  \/ AttemptResolves
  \/ \E err \in UpstreamErrors : AttemptRejects(err)
  \/ BackoffElapses
  \/ StreamEnds
  \/ \E err \in UpstreamErrors : StreamFails(err)
  \/ Stall
  \/ TimerFires

SpecGateway == InitGateway /\ [][NextGateway]_vars

\* the event loop runs what is ready: a timer that is due, a settled call
SpecGatewayFair == SpecGateway /\ WF_vars(NextGateway)

\* the failures of the fallback chain's calls, invalid requests among them
ChainErrors == UpstreamErrors \cup {ContextTooLong}

InitChain == InitGateway

NextChain ==
  \/ \E stream \in BOOLEAN : CreateResponse(stream)
  \/ AttemptResolves
  \/ \E err \in ChainErrors : AttemptRejects(err)
  \/ BackoffElapses
  \/ StreamEnds
  \/ \E err \in ChainErrors : StreamFails(err)
  \/ Stall
  \/ TimerFires

SpecChain == InitChain /\ [][NextChain]_vars

(***************************************************************************)
(* ConversationManager                                                     *)
(***************************************************************************)
\* array.slice(start): from index start (counted from the end when negative)
\* to the end; array.slice(-0) is array.slice(0), the whole array
Slice(seq, start) ==
  LET from == IF start < 0 THEN (IF Len(seq) + start < 0 THEN 0 ELSE Len(seq) + start)
              ELSE (IF start > Len(seq) THEN Len(seq) ELSE start)
  IN  SubSeq(seq, from + 1, Len(seq))

\* the instructions given to startConversation, as message content; 0 stands
\* for none given (or the empty string)
NoInstructions == 0
Instructions == -1

Message(role, content, t) == [role |-> role, content |-> content, timestamp |-> t]

\* a conversation; budgetLimit and contextLimit are 0 when undefined
NewConversation(instructions, budgetLimit, t) ==
  [messages |-> IF instructions # NoInstructions
                THEN <<Message("developer", instructions, t)>> ELSE <<>>,
   created |-> t, lastActive |-> t, totalCost |-> 0, tokenCount |-> 0,
   budgetLimit |-> budgetLimit, contextLimit |-> 0]

\* new ConversationManager(maxConversations, maxMessagesPerConversation);
\* order is the insertion order of the Map, ids counts generateId() calls,
\* added counts the addMessage calls, started remembers the instructions each
\* startConversation call was given
NewStore(maxConversations, maxMessages) ==
  [conversations |-> [id \in {} |-> 0], order |-> <<>>, ids |-> 0, added |-> 0,
   started |-> <<>>, contextDefault |-> DefaultContext,
   maxConversations |-> maxConversations,
   maxMessagesPerConversation |-> maxMessages]

Live(st) == DOMAIN st.conversations

\* cleanupOldestConversation, were it to delete the conversation started first
OldestIdByInsertion(st) == st.order[1]

\* the id cleanupOldestConversation deletes: the first one, in the Map's
\* order, whose lastActive no later one undercuts
OldestId(st) ==
  LET Older(i, j) ==
        st.conversations[st.order[i]].lastActive
          < st.conversations[st.order[j]].lastActive
      first == CHOOSE i \in DOMAIN st.order :
                 /\ \A j \in DOMAIN st.order : ~Older(j, i)
                 /\ \A j \in 1 .. i - 1 : Older(i, j)
  IN  st.order[first]

Delete(st, id) ==
  [st EXCEPT !.conversations = [k \in DOMAIN @ \ {id} |-> @[k]],
             !.order = SelectSeq(@, LAMBDA k : k # id)]

CleanupOldestConversation(st) ==
  IF st.order = <<>> THEN st ELSE Delete(st, OldestId(st))

\* the store after startConversation(topic, instructions, budgetLimit) at t
AfterStartConversation(st, instructions, budgetLimit, t) ==
  LET room == IF Cardinality(Live(st)) >= st.maxConversations
              THEN CleanupOldestConversation(st) ELSE st
      id == room.ids + 1
  IN  [room EXCEPT !.ids = id,
                   !.started = Append(@, instructions),
                   !.conversations =
                      [k \in DOMAIN @ \cup {id} |->
                         IF k = id THEN NewConversation(instructions, budgetLimit, t)
                         ELSE @[k]],
                   !.order = Append(@, id)]

\* addMessage's trimming, were it to forget the pinned first message
TrimmedUnpinned(messages, max) ==
  IF Len(messages) >= max THEN Slice(messages, -(max - 1)) ELSE messages

\* addMessage's trimming of a conversation that is at its maximum
Trimmed(messages, max) ==
  IF Len(messages) >= max
  THEN IF messages # <<>> /\ messages[1].role = "developer"
       THEN <<messages[1]>> \o Slice(messages, -(max - 2))
       ELSE Slice(messages, -(max - 1))
  ELSE messages

\* the store after addMessage(id, role, content) at t, id being live
AfterAddMessage(st, id, role, content, t) ==
  [st EXCEPT !.added = @ + 1,
             !.conversations[id] =
                [@ EXCEPT !.messages =
                            Append(Trimmed(@, st.maxMessagesPerConversation),
                                   Message(role, content, t)),
                          !.lastActive = t]]

\* the store after setOptions(id, {budgetLimit, contextLimit}) at t; an option
\* that is not a number is given as the empty sequence
AfterSetOptions(st, id, budgetLimit, contextLimit, t) ==
  [st EXCEPT !.conversations[id] =
     [@ EXCEPT !.budgetLimit = IF budgetLimit # <<>> THEN budgetLimit[1] ELSE @,
               !.contextLimit = IF contextLimit # <<>>
                                THEN (IF contextLimit[1] < 1 THEN 1 ELSE contextLimit[1])
                                ELSE @,
               !.lastActive = t]]

\* updateMetadata, were it to assign the values it is given
AfterUpdateMetadataAssigned(st, id, totalCost, tokenCount, t) ==
  [st EXCEPT !.conversations[id] =
     [@ EXCEPT !.totalCost = IF totalCost # <<>> THEN totalCost[1] ELSE @,
               !.tokenCount = IF tokenCount # <<>> THEN tokenCount[1] ELSE @,
               !.lastActive = t]]

\* the store after updateMetadata(id, {totalCost, tokenCount}) at t; a field
\* that is undefined is given as the empty sequence
AfterUpdateMetadata(st, id, totalCost, tokenCount, t) ==
  [st EXCEPT !.conversations[id] =
     [@ EXCEPT !.totalCost = IF totalCost # <<>> THEN @ + totalCost[1] ELSE @,
               !.tokenCount = IF tokenCount # <<>> THEN @ + tokenCount[1] ELSE @,
               !.lastActive = t]]

NotFound(id) == [threw |-> "Conversation not found", id |-> id]

\* startConversation(topic, instructions, budgetLimit)
StartConversation(instructions, budgetLimit) ==
  /\ store' = AfterStartConversation(store, instructions, budgetLimit, now)
  /\ answer' = [returned |-> store'.ids]
  /\ UNCHANGED <<managerVars, req, gw, turn, digest>>

\* addMessage(id, role, content): the content is the serial number of the call
AddMessage(id, role) ==
  /\ store.added < MaxMessagesAdded
  /\ IF id \in Live(store)
     THEN /\ store' = AfterAddMessage(store, id, role, store.added + 1, now)
          /\ answer' = [returned |-> <<>>]
     ELSE /\ answer' = NotFound(id)
          /\ UNCHANGED store
  /\ UNCHANGED <<managerVars, req, gw, turn, digest>>

\* setOptions(id, options)
SetOptions(id, budgetLimit, contextLimit) ==
  /\ IF id \in Live(store)
     THEN /\ store' = AfterSetOptions(store, id, budgetLimit, contextLimit, now)
          /\ answer' = [returned |-> <<>>]
     ELSE /\ answer' = NotFound(id)
          /\ UNCHANGED store
  /\ UNCHANGED <<managerVars, req, gw, turn, digest>>

\* updateMetadata(id, updates)
UpdateMetadata(id, totalCost, tokenCount) ==
  /\ IF id \in Live(store)
     THEN /\ store' = AfterUpdateMetadata(store, id, totalCost, tokenCount, now)
          /\ answer' = [returned |-> <<>>]
     ELSE /\ answer' = NotFound(id)
          /\ UNCHANGED store
  /\ UNCHANGED <<managerVars, req, gw, turn, digest>>

\* deleteConversation(id)
DeleteConversation(id) ==
  /\ store' = Delete(store, id)
  /\ answer' = [returned |-> id \in Live(store)]
  /\ UNCHANGED <<managerVars, req, gw, turn, digest>>

\* getContext(id, maxMessages) of a conversation with these messages
ContextOf(messages, maxMessages) ==
  IF messages # <<>> /\ messages[1].role = "developer" /\ maxMessages > 1
  THEN <<messages[1]>> \o Slice(messages, -(maxMessages - 1))
  ELSE Slice(messages, -maxMessages)

ApiMessage(m) == [role |-> m.role, content |-> m.content]

RECURSIVE MapApi(_)
MapApi(messages) ==
  IF messages = <<>> THEN <<>>
  ELSE <<ApiMessage(Head(messages))>> \o MapApi(Tail(messages))

\* formatForAPI's window: the override (at least 1), else the conversation's
\* contextLimit, else MAX_CONVERSATION_CONTEXT
ContextLimit(conv, maxMessages, default) ==
  IF maxMessages # <<>> THEN (IF maxMessages[1] < 1 THEN 1 ELSE maxMessages[1])
  ELSE IF conv.contextLimit # 0 THEN conv.contextLimit ELSE default

\* formatForAPI(id, newMessage, maxMessages); newMessage and maxMessages are the
\* empty sequence when not given
FormattedForAPI(conv, newMessage, maxMessages, default) ==
  LET source == Slice(conv.messages, -ContextLimit(conv, maxMessages, default))
      kept == SelectSeq(source, LAMBDA m : m.role # "developer")
  IN  MapApi(kept) \o
        (IF newMessage # <<>>
         THEN <<[role |-> "user", content |-> newMessage[1]]>> ELSE <<>>)

\* getContext(id, maxMessages)
GetContext(id, maxMessages) ==
  /\ answer' = IF id \in Live(store)
               THEN [returned |-> ContextOf(store.conversations[id].messages,
                                            maxMessages),
                     query |-> "getContext", id |-> id, maxMessages |-> maxMessages]
               ELSE NotFound(id)
  /\ UNCHANGED <<managerVars, req, gw, store, turn, digest>>

\* formatForAPI(id, newMessage, maxMessages)
FormatForAPI(id, newMessage, maxMessages) ==
  /\ answer' = IF id \in Live(store)
               THEN [returned |-> FormattedForAPI(store.conversations[id], newMessage,
                                                  maxMessages, store.contextDefault),
                     query |-> "formatForAPI", id |-> id,
                     newMessage |-> newMessage, maxMessages |-> maxMessages]
               ELSE NotFound(id)
  /\ UNCHANGED <<managerVars, req, gw, store, turn, digest>>

Roles == {"user", "assistant", "developer"}
MessageCaps == {0, 1, 2, 3}

InitStore(maxConversations, maxMessages) ==
  /\ InitManager(ServerLimits)
  /\ req = <<>> /\ gw = <<>> /\ turn = <<>> /\ digest = <<>>
  /\ store = NewStore(maxConversations, maxMessages)
  /\ answer = <<>>

InitMessages == \E max \in MessageCaps : InitStore(2, max)

NextMessages ==
  \/ \E i \in {NoInstructions, Instructions} :
        store.ids < MaxStarted /\ StartConversation(i, 0)
  \/ \E id \in 1 .. MaxStarted, role \in Roles : AddMessage(id, role)
  \/ \E id \in 1 .. MaxStarted : DeleteConversation(id)

SpecMessages == InitMessages /\ [][NextMessages]_vars

\* clearAll()
ClearAll ==
  /\ store' = [store EXCEPT !.conversations = [id \in {} |-> 0], !.order = <<>>]
  /\ answer' = [returned |-> <<>>]
  /\ UNCHANGED <<managerVars, req, gw, turn, digest>>

Capacities == {1, 2, 3}

InitCapacity ==
  /\ InitManager(ServerLimits)
  /\ req = <<>> /\ gw = <<>> /\ turn = <<>> /\ digest = <<>>
  /\ \E capacity \in Capacities : store = NewStore(capacity, 3)
  /\ answer = <<>>

\* a live conversation no operation has touched since it was started
Untouched(id) ==
  /\ id \in Live(store)
  /\ store.conversations[id].messages = <<>>
  /\ store.conversations[id].totalCost = 0
  /\ store.conversations[id].budgetLimit = 0

\* conversations are started, touched once and deleted while time passes
NextCapacity ==
  \/ store.ids < MaxIds /\ StartConversation(NoInstructions, 0)
  \/ \E id \in 1 .. MaxIds : Untouched(id) /\ AddMessage(id, "user")
  \/ \E id \in 1 .. MaxIds : Untouched(id) /\ UpdateMetadata(id, <<300>>, <<100>>)
  \/ \E id \in 1 .. MaxIds : Untouched(id) /\ SetOptions(id, <<50>>, <<>>)
  \/ \E id \in 1 .. MaxIds : id \in Live(store) /\ DeleteConversation(id)
  \/ Live(store) # {} /\ ClearAll
  \/ LoadComplete /\ UNCHANGED serverVars
  \/ AdvanceClock(1) /\ UNCHANGED serverVars

SpecCapacity == InitCapacity /\ [][NextCapacity]_vars

\* JSON.stringify(conversation): the dates become ISO strings
Exported(st, id) ==
  LET conv == st.conversations[id]
  IN  [id |-> id,
       messages |-> [i \in DOMAIN conv.messages |->
                       [role |-> conv.messages[i].role,
                        content |-> conv.messages[i].content,
                        timestamp |-> ToISOString(conv.messages[i].timestamp)]],
       metadata |-> [created |-> ToISOString(conv.created),
                     lastActive |-> ToISOString(conv.lastActive),
                     totalCost |-> conv.totalCost,
                     tokenCount |-> conv.tokenCount,
                     budgetLimit |-> conv.budgetLimit,
                     contextLimit |-> conv.contextLimit]]

\* new Date(undefined)
InvalidDate == -1

\* new Date(object[field])
DateField(object, field) ==
  IF field \in DOMAIN object THEN NewDate(object[field]) ELSE InvalidDate

\* object[field] of a number; 0 when undefined, as for budgetLimit
NumberField(object, field) ==
  IF field \in DOMAIN object THEN object[field] ELSE 0

\* texts importConversation may be given that no export produces: 'invalid
\* json', '{"id": "x"}', '{"messages": []}' and '{"messages": [], "metadata": {}}'
Unparseable == [broken |-> "json"]
NoMessages == [id |-> "x"]
NoMetadata == [messages |-> <<>>]
Shapeless == [messages |-> <<>>, metadata |-> [field \in {} |-> 0]]
ForeignDocuments == {Unparseable, NoMessages, NoMetadata, Shapeless}

\* the try block of importConversation runs to its end: JSON.parse succeeds,
\* messages has a map method and metadata has properties
Importable(doc) ==
  /\ "broken" \notin DOMAIN doc
  /\ "messages" \in DOMAIN doc
  /\ "metadata" \in DOMAIN doc

\* the store after importConversation(data), data being importable
AfterImportConversation(st, doc) ==
  LET id == st.ids + 1
      conv == [messages |-> [i \in DOMAIN doc.messages |->
                               [doc.messages[i] EXCEPT
                                  !.timestamp = NewDate(@)]],
               created |-> DateField(doc.metadata, "created"),
               lastActive |-> DateField(doc.metadata, "lastActive"),
               totalCost |-> NumberField(doc.metadata, "totalCost"),
               tokenCount |-> NumberField(doc.metadata, "tokenCount"),
               budgetLimit |-> NumberField(doc.metadata, "budgetLimit"),
               contextLimit |-> NumberField(doc.metadata, "contextLimit")]
  IN  [st EXCEPT !.ids = id,
                 !.started = Append(@, NoInstructions),
                 !.conversations =
                    [k \in DOMAIN @ \cup {id} |-> IF k = id THEN conv ELSE @[k]],
                 !.order = Append(@, id)]

\* exportConversation(id)
ExportConversation(id) ==
  /\ answer' = IF id \in Live(store)
               THEN [returned |-> Exported(store, id),
                     query |-> "exportConversation", id |-> id]
               ELSE NotFound(id)
  /\ UNCHANGED <<managerVars, req, gw, store, turn, digest>>

ImportFailed(doc) == [threw |-> "Failed to import conversation", data |-> doc]

\* importConversation(data)
ImportConversation(doc) ==
  /\ IF Importable(doc)
     THEN /\ store' = AfterImportConversation(store, doc)
          /\ answer' = [returned |-> store'.ids, query |-> "importConversation",
                        data |-> doc]
     ELSE /\ answer' = ImportFailed(doc)
          /\ UNCHANGED store
  /\ UNCHANGED <<managerVars, req, gw, turn, digest>>

\* the last call was an export and returned a text
IsExport == "query" \in DOMAIN answer /\ answer.query = "exportConversation"

InitArchive == InitStore(3, 4)

\* one conversation is started, filled, exported and imported as time passes
NextArchive ==
  \/ \E i \in {NoInstructions, Instructions} :
        store.ids = 0 /\ StartConversation(i, 0)
  \/ \E role \in {"user", "assistant"} : store.added < 2 /\ AddMessage(1, role)
  \/ Untouched(1) /\ UpdateMetadata(1, <<300>>, <<100>>)
  \/ \E id \in 1 .. MaxIds : id \in Live(store) /\ ExportConversation(id)
  \/ store.ids < MaxIds /\ IsExport /\ ImportConversation(answer.returned)
  \/ \E doc \in ForeignDocuments : store.ids < MaxIds /\ ImportConversation(doc)
  \/ LoadComplete /\ UNCHANGED serverVars
  \/ AdvanceClock(1) /\ UNCHANGED serverVars

SpecArchive == InitArchive /\ [][NextArchive]_vars

\* what a call of updateMetadata may supply for a field: nothing, zero, more
Supplied == {<<>>, <<0>>, <<300>>}

Given(value) == IF value # <<>> THEN value[1] ELSE 0

\* the totals the conversations are taken to
TotalsBound == 600

InitMetadata == InitStore(2, 4) /\ digest = <<>>

\* two conversations get messages and metadata updates as time passes
NextMetadata ==
  \/ store.ids < MaxStarted /\ StartConversation(NoInstructions, 0)
  \/ \E id \in 1 .. MaxStarted : store.added < 1 /\ AddMessage(id, "user")
  \/ \E id \in 1 .. MaxStarted, c \in Supplied, k \in Supplied :
        /\ id \in Live(store) =>
             /\ store.conversations[id].totalCost + Given(c) <= TotalsBound
             /\ store.conversations[id].tokenCount + Given(k) <= TotalsBound
        /\ UpdateMetadata(id, c, k)
  \/ \E id \in 1 .. MaxStarted : SetOptions(id, <<50>>, <<>>)
  \/ \E id \in 1 .. MaxStarted : id \in Live(store) /\ DeleteConversation(id)

SpecMetadata == InitMetadata /\ [][NextMetadata]_vars

\* MAX_CONVERSATION_CONTEXT as the environment may set it
ContextDefaults == {2, DefaultContext}
WindowChoices == {<<>>, <<1>>, <<2>>, <<3>>}
NewMessage == 99

InitQueries ==
  /\ InitManager(ServerLimits)
  /\ req = <<>> /\ gw = <<>> /\ turn = <<>> /\ digest = <<>>
  /\ \E default \in ContextDefaults :
       store = [NewStore(2, 4) EXCEPT !.contextDefault = default]
  /\ answer = <<>>

\* one conversation is started, filled and queried
NextQueries ==
  \/ \E i \in {NoInstructions, Instructions} : store.ids = 0 /\ StartConversation(i, 0)
  \/ \E role \in Roles : AddMessage(1, role)
  \/ SetOptions(1, <<>>, <<3>>)
  \/ \E n \in 1 .. 3 : GetContext(1, n)
  \/ \E new \in {<<>>, <<NewMessage>>}, n \in WindowChoices : FormatForAPI(1, new, n)

SpecQueries == InitQueries /\ [][NextQueries]_vars

(***************************************************************************)
(* handleContinueConversation: the multi-turn flow                         *)
(***************************************************************************)
Turns == 1 .. MaxTurns

\* conv_${conversation_id}_${Date.now()} of the turns of a conversation: they
\* start at distinct instants
TurnTaskNames ==
  << <<"conv_1_a", "conv_1_b", "conv_1_c">>, <<"conv_2_a", "conv_2_b", "conv_2_c">>,
     <<"conv_3_a", "conv_3_b", "conv_3_c">>, <<"conv_4_a", "conv_4_b", "conv_4_c">> >>

TurnTask(k, id) == TurnTaskNames[id][k]

\* getInstructions(id): the content of the first message when it is a
\* developer message
GetInstructions(st, id) ==
  IF id \in Live(st) /\ Len(st.conversations[id].messages) > 0
     /\ st.conversations[id].messages[1].role = "developer"
  THEN <<st.conversations[id].messages[1].content>>
  ELSE <<>>

\* one call of the handler. budgetLimit and totalCost are the conversation's
\* when the call arrived, input and instructions what it hands to the gateway,
\* thrown what the gateway threw, handler how the handler's promise settled,
\* error and conversation_id the fields of an error result
IdleTurn ==
  [pc |-> "idle", id |-> 0, task |-> "", budgetLimit |-> 0, totalCost |-> 0,
   sent |-> FALSE, input |-> <<>>, instructions |-> <<>>, actual |-> 0,
   costCheck |-> NoResult, thrown |-> <<>>, handler |-> "pending",
   reply |-> "none", error |-> "", conversation_id |-> 0]

\* the positions of handleContinueConversation that its try block covers
ContinueTry == {"lookup", "calling", "recording"}

\* the catch block's result
ContinueCaught(t, message) ==
  [t EXCEPT !.pc = "done", !.handler = "returned", !.reply = "error",
            !.error = IF message # "" THEN message
                      ELSE "Failed to continue conversation",
            !.conversation_id = t.id]

\* the handler up to the call of the gateway: the conversation is looked up,
\* the user message added, the input formatted, the task started
ContinueStart(k, id) ==
  /\ turn[k].pc = "idle"
  /\ IF id \notin Live(store)
     THEN /\ turn' = [turn EXCEPT ![k] =
                        [@ EXCEPT !.pc = "done", !.id = id, !.handler = "returned",
                                  !.reply = "error",
                                  !.error = "Conversation not found"]]
          /\ UNCHANGED <<managerVars, store>>
     ELSE LET added == AfterAddMessage(store, id, "user", store.added + 1, now)
              conv == added.conversations[id]
          IN  /\ store' = added
              /\ Install(AfterStartNewTask(Current, TurnTask(k, id)))
              /\ lastCall' = NoCall
              /\ touched' = loadPending
              /\ turn' = [turn EXCEPT ![k] =
                            [@ EXCEPT !.pc = "calling", !.id = id,
                                      !.task = TurnTask(k, id),
                                      !.budgetLimit = store.conversations[id].budgetLimit,
                                      !.totalCost = store.conversations[id].totalCost,
                                      !.sent = TRUE,
                                      !.input = FormattedForAPI(conv, <<>>, <<>>,
                                                                store.contextDefault),
                                      !.instructions = GetInstructions(added, id)]]
              /\ UNCHANGED <<now, loadPending, file, advances, persisted>>
  /\ UNCHANGED <<req, gw, answer, digest>>

\* createResponse returned a response costing c with as many tokens: the cost
\* is recorded, the assistant message added, the metadata updated; addMessage
\* throws when the conversation is gone by then
ContinueRespond(k, c, tokens) ==
  /\ turn[k].pc = "calling"
  /\ CheckAndRecordUsage(turn[k].task, c, FALSE)
  /\ LET id == turn[k].id
         t == [turn[k] EXCEPT !.actual = c, !.costCheck = lastCall'.result]
     IN  IF id \in Live(store)
         THEN /\ store' = AfterUpdateMetadata(
                            AfterAddMessage(store, id, "assistant", store.added + 1, now),
                            id, <<c>>, <<tokens>>, now)
              /\ turn' = [turn EXCEPT ![k] =
                            [t EXCEPT !.pc = "done", !.handler = "returned",
                                      !.reply = "response",
                                      !.conversation_id = id]]
         ELSE /\ UNCHANGED store
              /\ turn' = [turn EXCEPT ![k] =
                            IF "recording" \in ContinueTry
                            THEN ContinueCaught(t, "Conversation not found")
                            ELSE [t EXCEPT !.pc = "done", !.handler = "rejected"]]
  /\ UNCHANGED <<now, loadPending, advances, req, gw, answer, digest>>

\* createResponse threw err
ContinueFail(k, err) ==
  /\ turn[k].pc = "calling"
  /\ turn' = [turn EXCEPT ![k] =
                IF turn[k].pc \in ContinueTry
                THEN ContinueCaught([@ EXCEPT !.thrown = <<err>>], err.message)
                ELSE [@ EXCEPT !.pc = "done", !.thrown = <<err>>,
                               !.handler = "rejected"]]
  /\ UNCHANGED <<managerVars, req, gw, store, answer, digest>>

\* per-conversation budgets: none, or $0.05
ConversationBudgets == {0, 50}

\* what a turn turns out to cost, and its tokens
TurnCosts == {30, 300}

TurnTokens == 1200

InitTurns ==
  /\ InitManager(ServerLimits)
  /\ req = <<>> /\ gw = <<>> /\ digest = <<>>
  /\ store = NewStore(1, 4)
  /\ answer = <<>>
  /\ turn = [k \in Turns |-> IdleTurn]

NextTurns ==
  \/ \E b \in ConversationBudgets :
       store.ids < MaxStarted /\ StartConversation(Instructions, b)
  \/ \E id \in 1 .. MaxStarted : SetOptions(id, <<50>>, <<>>)
  \/ \E k \in Turns, id \in 1 .. MaxStarted : ContinueStart(k, id)
  \/ \E k \in Turns, c \in TurnCosts : ContinueRespond(k, c, TurnTokens)
  \/ \E k \in Turns, err \in GatewayFailures : ContinueFail(k, err)
  \/ LoadComplete /\ UNCHANGED serverVars

SpecTurns == InitTurns /\ [][NextTurns]_vars

\* a single-shot request and the turns side by side, sharing the CostManager
InitHandlers ==
  /\ InitManager(ServerLimits)
  /\ req = [r \in Requests |-> IdleRequest]
  /\ gw = <<>> /\ digest = <<>>
  /\ store = NewStore(1, 4)
  /\ answer = <<>>
  /\ turn = [k \in Turns |-> IdleTurn]

NextHandlers ==
  \/ \E u \in BOOLEAN : ConsultStart(1, u, <<>>)
  \/ ConsultPreCheck(1, 35)
  \/ ConsultRespond(1, 300)
  \/ \E err \in GatewayFailures : ConsultFail(1, err)
  \/ store.ids < MaxStarted /\ StartConversation(Instructions, 0)
  \/ \E k \in Turns, id \in 1 .. MaxStarted : ContinueStart(k, id)
  \/ \E k \in Turns : ContinueRespond(k, 300, TurnTokens)
  \/ \E k \in Turns, err \in GatewayFailures : ContinueFail(k, err)
  \/ LoadComplete /\ UNCHANGED serverVars

SpecHandlers == InitHandlers /\ [][NextHandlers]_vars

\* the tools the CallTool handler dispatches on
ToolNames == {"consult_gpt5", "start_conversation", "continue_conversation",
              "get_cost_report", "set_cost_limits"}

UnknownTool(name, args) == [error |-> "Unknown tool", name |-> name, args |-> args]

\* the CallTool handler for a name that is no case of its switch: the default
\* branch throws, the catch returns the error as the content
CallUnknownTool(name, args) ==
  /\ name \notin ToolNames
  /\ answer' = UnknownTool(name, args)
  /\ UNCHANGED <<managerVars, req, gw, store, turn, digest>>

KeepChoices == 0 .. 2

InitSummaries == InitStore(2, 4)

\* a conversation is started and filled, and summarize_conversation is called
NextSummaries ==
  \/ \E i \in {NoInstructions, Instructions} :
        store.ids < MaxStarted /\ StartConversation(i, 0)
  \/ \E id \in 1 .. MaxStarted, role \in {"user", "assistant"} : AddMessage(id, role)
  \/ \E id \in 1 .. MaxStarted, n \in KeepChoices :
        CallUnknownTool("summarize_conversation",
                        [conversation_id |-> id, keep_last_n |-> n])

SpecSummaries == InitSummaries /\ [][NextSummaries]_vars

\* handleSummarizeConversation as README.md lists it (no such handler is in
\* index.ts): one call; prefix and recent are what it took from the
\* conversation's messages before it awaited the gateway, added the number of
\* addMessage calls made until then
IdleSummary ==
  [pc |-> "idle", id |-> 0, keep |-> 0, prefix |-> <<>>, recent |-> <<>>,
   added |-> 0, reply |-> "none"]

\* the content of the synthetic summary message
SummaryText == -2

\* the handler up to its await of gpt5Client.createResponse
SummarizeStart(id, keep) ==
  /\ req[1].pc = "idle"
  /\ req' = [req EXCEPT ![1] =
               IF id \notin Live(store)
               THEN [@ EXCEPT !.pc = "done", !.id = id, !.reply = "not found"]
               ELSE LET messages == store.conversations[id].messages
                        hasDev == messages # <<>> /\ messages[1].role = "developer"
                        headIndex == IF hasDev THEN 1 ELSE 0
                        from == IF Len(messages) - keep > headIndex
                                THEN Len(messages) - keep ELSE headIndex
                    IN  [@ EXCEPT !.pc = "calling", !.id = id, !.keep = keep,
                                  !.prefix = IF hasDev THEN <<messages[1]>> ELSE <<>>,
                                  !.recent = Slice(messages, from),
                                  !.added = store.added]]
  /\ UNCHANGED <<managerVars, gw, store, answer, turn, digest>>

\* createResponse returned: the messages are replaced by the developer
\* message, the summary and the messages kept
SummarizeRespond ==
  /\ req[1].pc = "calling"
  /\ LET id == req[1].id
         newMessages == req[1].prefix \o <<Message("assistant", SummaryText, now)>>
                          \o req[1].recent
     IN  store' = IF id \in Live(store)
                  THEN [store EXCEPT !.conversations[id] =
                          [@ EXCEPT !.messages = newMessages, !.lastActive = now]]
                  ELSE store
  /\ req' = [req EXCEPT ![1] = [@ EXCEPT !.pc = "done", !.reply = "summarized"]]
  /\ UNCHANGED <<managerVars, gw, answer, turn, digest>>

\* createResponse threw: the handler has no catch of its own
SummarizeFail ==
  /\ req[1].pc = "calling"
  /\ req' = [req EXCEPT ![1] = [@ EXCEPT !.pc = "done", !.reply = "error"]]
  /\ UNCHANGED <<managerVars, gw, store, answer, turn, digest>>

InitCompaction ==
  /\ InitManager(ServerLimits)
  /\ req = <<IdleSummary>>
  /\ gw = <<>> /\ digest = <<>>
  /\ store = NewStore(1, 50)
  /\ answer = <<>>
  /\ turn = [k \in Turns |-> IdleTurn]

\* one conversation, its turns and one summarize_conversation call side by
\* side
NextCompaction ==
  \/ \E i \in {NoInstructions, Instructions} :
        store.ids < 1 /\ StartConversation(i, 0)
  \/ \E k \in Turns : ContinueStart(k, 1)
  \/ \E k \in Turns : ContinueRespond(k, 300, TurnTokens)
  \/ \E k \in Turns : ContinueFail(k, Unauthorized)
  \/ \E keep \in KeepChoices : SummarizeStart(1, keep)
  \/ SummarizeRespond
  \/ SummarizeFail
  \/ LoadComplete /\ UNCHANGED serverVars

SpecCompaction == InitCompaction /\ [][NextCompaction]_vars

\* the context limits a client asks for
ContextChoices == {1, 2}

SetConversationOptionsArgs(id, contextLimit) ==
  [conversation_id |-> id, context_limit |-> contextLimit]

InitOptions ==
  /\ InitManager(ServerLimits)
  /\ req = <<>> /\ gw = <<>> /\ digest = <<>>
  /\ store = NewStore(1, 50)
  /\ answer = <<>>
  /\ turn = [k \in Turns |-> IdleTurn]

\* one conversation, the tool call set_conversation_options and the turns
NextOptions ==
  \/ store.ids < 1 /\ StartConversation(Instructions, 0)
  \/ \E K \in ContextChoices :
        /\ 1 \in Live(store)
        /\ CallUnknownTool("set_conversation_options",
                           SetConversationOptionsArgs(1, K))
  \/ \E k \in Turns : ContinueStart(k, 1)
  \/ \E k \in Turns : ContinueRespond(k, 300, TurnTokens)
  \/ \E k \in Turns : ContinueFail(k, Unauthorized)
  \/ LoadComplete /\ UNCHANGED serverVars

SpecOptions == InitOptions /\ [][NextOptions]_vars

(***************************************************************************)
(* processResources: the digest of the attached resources                  *)
(***************************************************************************)
\* a string, by its length and whether it contains 'function', 'class' or
\* 'import' (within its first 400 characters, where truncation keeps it); the
\* string of length 0 is also what stands for an absent field
Text(len, code) == [len |-> len, code |-> code]

Absent == Text(0, FALSE)

Concat(a, b) == Text(a.len + b.len, a.code \/ b.code)

\* Math.ceil(text.length / avgCharsPerToken)
EstimateTokenCount(text) ==
  LET avgCharsPerToken == IF text.code THEN 3 ELSE 4
  IN  (text.len + avgCharsPerToken - 1) \div avgCharsPerToken

\* '\n\n[... content truncated to prevent token waste - file too large for
\* current task budget ...]'
TruncationNotice == Text(93, FALSE)

\* truncateText when the text is too long: its first maxTokens * 4 characters
\* and the notice
TruncateAlways(text, maxTokens) ==
  LET maxChars == maxTokens * 4
  IN  Concat(Text(IF text.len < maxChars THEN text.len ELSE maxChars, text.code),
             TruncationNotice)

TruncateText(text, maxTokens) ==
  IF EstimateTokenCount(text) <= maxTokens THEN text
  ELSE TruncateAlways(text, maxTokens)

\* an entry of meta.resources (given: it is an object, not null)
Resource(name, uri, text, content) ==
  [given |-> TRUE, name |-> name, uri |-> uri, text |-> text, content |-> content]

NullEntry ==
  [given |-> FALSE, name |-> Absent, uri |-> Absent, text |-> Absent,
   content |-> Absent]

\* `\n--- Resource: ${resource.name || resource.uri || 'file'} ---\n`
Header(resource) ==
  LET label == IF resource.name.len > 0 THEN resource.name
               ELSE IF resource.uri.len > 0 THEN resource.uri
               ELSE Text(4, FALSE)
  IN  Concat(Text(15, FALSE), Concat(label, Text(5, FALSE)))

\* '\n--- End Resource ---\n'
Footer == Text(22, FALSE)

\* `\n--- File Reference: ${resource.uri} ---\n`
FileReference(resource) == Concat(Text(21, FALSE), Concat(resource.uri, Text(5, FALSE)))

\* '\n[... additional resources truncated due to token limits ...]\n'
ResourcesNote == Text(62, FALSE)

\* '\n[... additional content truncated due to token limits ...]\n'
ContentNote == Text(60, FALSE)

\* `\n--- Attached Content ---\n` and '\n--- End Content ---\n'
AttachedHeader == Text(26, FALSE)

AttachedFooter == Text(21, FALSE)

\* a part of resourceContent: what was appended for entry index of the list
Piece(list, index, part, text) ==
  [list |-> list, index |-> index, part |-> part, text |-> text]

\* resourceContent: the parts joined
RECURSIVE Joined(_)
Joined(pieces) ==
  IF pieces = <<>> THEN Absent
  ELSE Concat(Joined(SubSeq(pieces, 1, Len(pieces) - 1)), pieces[Len(pieces)].text)

NoThrow == [list |-> "none", index |-> 0]

\* header + the text cut to the tokens left + footer, or nothing (FALSE) when
\* no more than 100 tokens are left
Wrapped(pieces, header, footer, body, maxTokens) ==
  LET usedTokens == EstimateTokenCount(Joined(pieces))
      availableTokens == maxTokens - usedTokens
                           - EstimateTokenCount(Concat(header, footer))
  IN  [fits |-> availableTokens > 100,
       text |-> IF availableTokens > 100
                THEN Concat(header, Concat(TruncateText(body, availableTokens), footer))
                ELSE Absent]

\* the loop over meta.resources from entry i on; reading a property of a null
\* entry throws
RECURSIVE ResourcesLoop(_, _, _, _)
ResourcesLoop(resources, i, pieces, maxTokens) ==
  IF i > Len(resources) THEN [pieces |-> pieces, threw |-> NoThrow]
  ELSE
    LET resource == resources[i]
        body == IF resource.text.len > 0 THEN resource.text ELSE resource.content
        wrapped == Wrapped(pieces, Header(resource), Footer, body, maxTokens)
    IN  IF ~resource.given
        THEN [pieces |-> pieces, threw |-> [list |-> "resources", index |-> i]]
        ELSE IF body.len > 0
        THEN IF wrapped.fits
             THEN ResourcesLoop(resources, i + 1,
                                Append(pieces, Piece("resources", i, "resource",
                                                     wrapped.text)),
                                maxTokens)
             ELSE [pieces |-> Append(pieces, Piece("resources", i, "note",
                                                   ResourcesNote)),
                   threw |-> NoThrow]
        ELSE IF resource.uri.len > 0
        THEN ResourcesLoop(resources, i + 1,
                           Append(pieces, Piece("resources", i, "reference",
                                                FileReference(resource))),
                           maxTokens)
        ELSE ResourcesLoop(resources, i + 1, pieces, maxTokens)

\* an item of meta.content: {type: 'text', text}, {type: 'resource', resource}
TextItem(text) == [given |-> TRUE, type |-> "text", text |-> text, resource |-> NullEntry]

ResourceItem(resource) ==
  [given |-> TRUE, type |-> "resource", text |-> Absent, resource |-> resource]

NullItem == [given |-> FALSE, type |-> "", text |-> Absent, resource |-> NullEntry]

\* the loop over meta.content from item i on
RECURSIVE ContentLoop(_, _, _, _)
ContentLoop(content, i, pieces, maxTokens) ==
  IF i > Len(content) THEN [pieces |-> pieces, threw |-> NoThrow]
  ELSE
    LET item == content[i]
        usedTokens == EstimateTokenCount(Joined(pieces))
        res == item.resource
        asText == Wrapped(pieces, AttachedHeader, AttachedFooter, item.text, maxTokens)
        body == IF res.text.len > 0 THEN res.text ELSE res.content
        asResource == Wrapped(pieces, Header(res), Footer, body, maxTokens)
    IN  IF usedTokens >= maxTokens - 100
        THEN [pieces |-> Append(pieces, Piece("content", i, "note", ContentNote)),
              threw |-> NoThrow]
        ELSE IF ~item.given
        THEN [pieces |-> pieces, threw |-> [list |-> "content", index |-> i]]
        ELSE IF item.type = "text" /\ item.text.len > 0 /\ asText.fits
        THEN ContentLoop(content, i + 1,
                         Append(pieces, Piece("content", i, "resource", asText.text)),
                         maxTokens)
        ELSE IF item.type = "resource" /\ res.given /\ asResource.fits /\ body.len > 0
        THEN ContentLoop(content, i + 1,
                         Append(pieces, Piece("content", i, "resource",
                                              asResource.text)),
                         maxTokens)
        ELSE ContentLoop(content, i + 1, pieces, maxTokens)

\* meta: its resources and content arrays (empty when absent) and its text
Meta(resources, content, text) ==
  [resources |-> resources, content |-> content, text |-> text]

\* what processResources(meta, maxTokens) returns, and what was thrown inside
\* it and caught by its one try block
ProcessedResources(meta, maxTokens) ==
  LET first == ResourcesLoop(meta.resources, 1, <<>>, maxTokens)
      second == IF first.threw # NoThrow THEN first
                ELSE ContentLoop(meta.content, 1, first.pieces, maxTokens)
      fallback == Wrapped(<<>>, AttachedHeader, AttachedFooter, meta.text, maxTokens)
  IN  IF second.threw = NoThrow /\ Joined(second.pieces).len = 0
         /\ meta.text.len > 0 /\ fallback.fits
      THEN [pieces |-> <<Piece("text", 1, "resource", fallback.text)>>,
            threw |-> NoThrow]
      ELSE second

\* a call processResources(meta, maxTokens) that has not run yet
Called(meta, maxTokens) ==
  [pc |-> "called", meta |-> meta, maxTokens |-> maxTokens, pieces |-> <<>>,
   threw |-> NoThrow]

\* the call runs; it has no await inside
ProcessResources ==
  /\ digest.pc = "called"
  /\ digest' = [digest EXCEPT
                  !.pc = "done",
                  !.pieces = ProcessedResources(digest.meta, digest.maxTokens).pieces,
                  !.threw = ProcessedResources(digest.meta, digest.maxTokens).threw]
  /\ UNCHANGED <<managerVars, req, gw, conversationVars>>

\* the payloads: a short text, a long one, a long source file, a resource
\* with content instead of text, a reference, a null entry
ShortText == Text(200, FALSE)

LongText == Text(12000, FALSE)

SourceText == Text(12000, TRUE)

Notes == Resource(Text(8, FALSE), Absent, ShortText, Absent)

ResourceChoices ==
  {Notes,
   Resource(Text(8, FALSE), Absent, LongText, Absent),
   Resource(Text(7, FALSE), Absent, SourceText, Absent),
   Resource(Absent, Text(20, FALSE), Absent, ShortText),
   Resource(Absent, Text(20, FALSE), Absent, Absent),
   NullEntry}

ItemChoices == {TextItem(ShortText), ResourceItem(Notes), NullItem}

SeqsUpTo(S, n) == UNION {[1 .. k -> S] : k \in 0 .. n}

\* six short resources, one more than RESOURCE_MAX_COUNT
ManyResources == [i \in 1 .. ResourceMaxCount + 1 |-> Notes]

Payloads ==
  {Meta(r, c, t) : r \in SeqsUpTo(ResourceChoices, MaxResources) \cup {ManyResources},
                   c \in SeqsUpTo(ItemChoices, MaxItems),
                   t \in {Absent, ShortText}}

\* maxTokens: calculateSafeInputTokens gives 500 at least; 2000 is the default
Ceilings == {150, 500, 2000}

InitResources ==
  /\ InitManager(ServerLimits)
  /\ req = <<>> /\ gw = <<>> /\ store = <<>> /\ answer = <<>> /\ turn = <<>>
  /\ \E meta \in Payloads, maxTokens \in Ceilings : digest = Called(meta, maxTokens)

NextResources == ProcessResources

SpecResources == InitResources /\ [][NextResources]_vars

(***************************************************************************)
(* The governor's decisions                                                *)
(***************************************************************************)
Today == DayOf(now)
HardBlocked(r) ==
  ~r.allowed /\ ~r.needsConfirmation /\ r.reason.text = "Extremely high task spending"

\* a step that is a checkAndRecordUsage call (its arguments are in lastCall')
CallStep ==
  /\ lastCall'.valid
  /\ CheckAndRecordUsage(lastCall'.taskId, lastCall'.cost, lastCall'.userConfirmed)

\* C1: an unconfirmed call, with a daily ceiling D > 0 and S recorded for today,
\* is answered allowed=false, needsConfirmation=true whenever D-S is at most 10%
\* of D or the cost is greater than D-S, and the reason carries the remaining
\* amount D-S (to the cent); a confirmed call is never answered needsConfirmation.
C1_DailyCheck ==
  [][CallStep =>
         LET D == limits.daily
             S == MapGet(dailyUsage, Today)
             c == lastCall'.cost
             u == lastCall'.userConfirmed
             r == lastCall'.result
         IN  /\ (~u /\ D > 0 /\ (10 * (D - S) <= D \/ c > D - S)) =>
                  /\ r.allowed = FALSE
                  /\ r.needsConfirmation = TRUE
                  /\ r.reason.text = "Approaching daily limit"
                  /\ 10 * r.reason.amount - (D - S) \in -5 .. 5
             /\ u => r.needsConfirmation = FALSE]_vars

\* the scenario of C1: 9.50 of 10.00 spent, a call of 0.30 without confirmation
\* is answered needs-confirmation with 0.50 remaining
C1_Witness ==
  /\ lastCall.valid
  /\ ~lastCall.userConfirmed
  /\ lastCall.cost = 300
  /\ limits.daily = 10000
  /\ MapGet(dailyUsage, Today) = 9500
  /\ lastCall.result.needsConfirmation
  /\ ~lastCall.result.allowed
  /\ lastCall.result.reason.amount = 50

\* C2 as stated: when the daily check did not reject, the call is hard-blocked
\* if and only if taskTotal + cost > 10 x the per-task ceiling, and is allowed
\* otherwise.
C2_RunawayAsStated ==
  [][(CallStep /\ ~lastCall'.result.needsConfirmation) =>
         LET r == lastCall'.result
             T == MapGet(taskUsage, lastCall'.taskId)
         IN  /\ HardBlocked(r) <=>
                   T + lastCall'.cost > RunawayMultiplier * limits.perTask
             /\ ~HardBlocked(r) => r.allowed]_vars

\* C2 (amended): when the daily check did not reject, the call is hard-blocked if
\* and only if a per-task ceiling P > 0 is set and taskTotal + cost > 10 x P,
\* whatever userConfirmed is, and is allowed otherwise (a cost above P but within
\* 10 x P is allowed; with P = 0 the check is skipped).
C2_Runaway ==
  [][(CallStep /\ ~lastCall'.result.needsConfirmation) =>
         LET r == lastCall'.result
             P == limits.perTask
             T == MapGet(taskUsage, lastCall'.taskId)
         IN  /\ HardBlocked(r) <=>
                   (P > 0 /\ T + lastCall'.cost > RunawayMultiplier * P)
             /\ ~HardBlocked(r) => r.allowed]_vars

\* the scenario of C2: ceiling 2.00, a confirmed call of 25.00 is hard-blocked
C2_Witness ==
  /\ lastCall.valid
  /\ lastCall.userConfirmed
  /\ lastCall.cost = 25000
  /\ limits.perTask = 2000
  /\ HardBlocked(lastCall.result)

\* C5: with the daily ceiling D > 0 fixed and no call confirmed, the total
\* recorded for the current day never exceeds D.
C5_DailyTotalWithinCeiling ==
  limits.daily > 0 => MapGet(dailyUsage, Today) <= limits.daily

\* money has been recorded today and a call whose cost would have taken the
\* day's total over the ceiling was turned down
C5_Witness ==
  /\ limits.daily > 0
  /\ MapGet(dailyUsage, Today) > 0
  /\ lastCall.valid
  /\ ~lastCall.result.allowed
  /\ MapGet(dailyUsage, Today) + lastCall.cost > limits.daily

Parts(w) == {w[i] : i \in DOMAIN w}

\* C21 as stated: on an allowed call, with N the new daily total, the warning
\* has 'Daily spending' when N is above 100% of the daily ceiling and 'Daily
\* usage at' when N is above 80% of it but not above 100%; likewise 'Task
\* spending' / 'Task usage at' for the task total and the per-task ceiling; the
\* warnings that apply make one message, and there is none when none applies.
C21_WarningsAsStated ==
  [][(CallStep /\ lastCall'.result.allowed) =>
         LET w == lastCall'.result.warning
             D == limits.daily
             P == limits.perTask
             N == MapGet(dailyUsage, Today) + lastCall'.cost
             M == MapGet(taskUsage, lastCall'.taskId) + lastCall'.cost
         IN  /\ "Daily spending" \in Parts(w) <=> N * 100 > 100 * D
             /\ "Daily usage at" \in Parts(w) <=>
                   (N * 100 > WarnPercent * D /\ ~(N * 100 > 100 * D))
             /\ "Task spending" \in Parts(w) <=> M * 100 > 100 * P
             /\ "Task usage at" \in Parts(w) <=>
                   (M * 100 > WarnPercent * P /\ ~(M * 100 > 100 * P))
             /\ Len(w) = Cardinality(Parts(w))
             /\ Len(w) = 2 => w[1] \in {"Daily spending", "Daily usage at"}]_vars

\* C21 (amended): the same for a daily ceiling D > 0 and a per-task ceiling
\* P > 0; a ceiling of 0 counts as no ceiling and gives no warning.
C21_Warnings ==
  [][(CallStep /\ lastCall'.result.allowed) =>
         LET w == lastCall'.result.warning
             D == limits.daily
             P == limits.perTask
             N == MapGet(dailyUsage, Today) + lastCall'.cost
             M == MapGet(taskUsage, lastCall'.taskId) + lastCall'.cost
         IN  /\ "Daily spending" \in Parts(w) <=> (D > 0 /\ N * 100 > 100 * D)
             /\ "Daily usage at" \in Parts(w) <=>
                   (D > 0 /\ N * 100 > WarnPercent * D /\ ~(N * 100 > 100 * D))
             /\ "Task spending" \in Parts(w) <=> (P > 0 /\ M * 100 > 100 * P)
             /\ "Task usage at" \in Parts(w) <=>
                   (P > 0 /\ M * 100 > WarnPercent * P /\ ~(M * 100 > 100 * P))
             /\ Len(w) = Cardinality(Parts(w))
             /\ Len(w) = 2 => w[1] \in {"Daily spending", "Daily usage at"}]_vars

\* a confirmed call that took the day's total over the daily ceiling and the
\* task's over the per-task ceiling: both warnings in one message
C21_Witness ==
  /\ lastCall.valid
  /\ lastCall.result.allowed
  /\ lastCall.result.warning = <<"Daily spending", "Task spending">>
  /\ MapGet(dailyUsage, Today) > limits.daily
  /\ limits.daily > 0

(***************************************************************************)
(* The single-shot flow                                                    *)
(***************************************************************************)
\* the handler reached gpt5Client.createResponse for request r
GatewayInvoked(r) == req[r].pc = "calling" \/ req[r].reply \in {"response", "error"}

\* C3: the Model Gateway is invoked only when the pre-flight decision is
\* allowed: a request whose pre-flight needs confirmation or is hard-blocked by
\* the runaway check makes no upstream call
C3_GatewayOnlyWhenAllowed ==
  \A r \in Requests : GatewayInvoked(r) => req[r].preCheck.allowed

RecordsOfTask(hist, t) == SelectSeq(hist, LAMBDA rec : rec.taskId = t)

Responded(r) == req[r].reply = "response" /\ req[r].costCheck.allowed

\* C4: the pre-flight check records nothing: once a request is completed with
\* a response of cost c, its task's total is c and the history holds exactly
\* one record for the task, of cost c; with every request at rest, the day's
\* total is the sum of the costs of the responses
C4_OnlyActualCostRecorded ==
  /\ \A r \in Requests :
       Responded(r) =>
         /\ MapGet(taskUsage, TaskOf(r)) = req[r].actual
         /\ Len(RecordsOfTask(usageHistory, TaskOf(r))) = 1
         /\ RecordsOfTask(usageHistory, TaskOf(r))[1].cost = req[r].actual
  /\ (\A r \in Requests : req[r].pc \in {"idle", "done"})
       => MapGet(dailyUsage, Today) =
            SumCost([i \in 1 .. MaxRequests |->
                       [cost |-> IF Responded(i) THEN req[i].actual ELSE 0]])

(***************************************************************************)
(* The ledger and its storage                                              *)
(***************************************************************************)
RecordsOfDay(hist, d) == SelectSeq(hist, LAMBDA r : DayOf(r.timestamp) = d)
DaysOf(hist) == {DayOf(hist[i].timestamp) : i \in DOMAIN hist}
Cutoff == now - RetentionDays * TicksPerDay

\* C6: in every ledger state the running total of a day equals the sum of the
\* costs of the history records whose timestamp falls on that day.
C6_DailyTotalsMatchHistory ==
  \A d \in (DOMAIN dailyUsage) \cup DaysOf(usageHistory) :
    MapGet(dailyUsage, d) = SumCost(RecordsOfDay(usageHistory, d))

\* a step in which a freshly constructed, untouched instance finishes loading
\* the storage the previous instance persisted
ReloadStep ==
  loadPending /\ ~touched /\ file.exists /\ LoadComplete

LoadStep == loadPending /\ file.exists /\ LoadComplete

Retention == RetentionDays * TicksPerDay

ReloadedLimits ==
  LoadPersistedData(file', Ledger(DefaultLimits, EmptyMap, EmptyMap, <<>>, Null),
                    now).limits

\* C24: updateLimits(partial) sets exactly the limits the partial provides,
\* leaves the other limit, the totals, the history and the active task as they
\* are, and writes the limits to storage, where a reload finds them
C24_UpdateLimitsFrame ==
  [][\A p \in PartialLimits :
        UpdateLimits(p) =>
          /\ \A f \in DOMAIN p : limits'[f] = p[f]
          /\ \A f \in (DOMAIN limits) \ (DOMAIN p) : limits'[f] = limits[f]
          /\ dailyUsage' = dailyUsage
          /\ taskUsage' = taskUsage
          /\ usageHistory' = usageHistory
          /\ currentTaskId' = currentTaskId
          /\ file'.exists
          /\ file'.limits = limits'
          /\ ReloadedLimits = limits']_vars

\* after two recorded calls the per-task ceiling was changed and stored, the
\* daily one and the records are as they were
C24_Witness ==
  /\ ~lastCall.valid
  /\ Len(usageHistory) = 2
  /\ file = Serialize(Current)
  /\ limits = [daily |-> 10000, perTask |-> 0]
  /\ MapGet(taskUsage, "task-1") > 0

RECURSIVE SumOfCosts(_)
SumOfCosts(entries) ==
  IF entries = <<>> THEN 0 ELSE entries[1].cost + SumOfCosts(Tail(entries))

\* C25: the totalCost of a report is the sum of the costs of its breakdown,
\* for every period; for today, week and month the breakdown has exactly one
\* entry for each calendar day with a record at or after the window start, in
\* ascending order of date
ReportAsStated(report) ==
  /\ report.totalCost = SumOfCosts(report.breakdown)
  /\ report.period # "current_task" =>
       /\ {report.breakdown[i].date : i \in DOMAIN report.breakdown}
            = {DayOf(usageHistory[i].timestamp) :
                 i \in {j \in DOMAIN usageHistory :
                          usageHistory[j].timestamp >= report.startDate}}
       /\ \A i, j \in DOMAIN report.breakdown :
            i < j => report.breakdown[i].date < report.breakdown[j].date

C25_ReportTotalsMatchBreakdown ==
  [][\A period \in Periods, m \in MonthLengths :
       GenerateReport(period, m) => ReportAsStated(answer')]_vars

IsCeiling(a) == "maxTokens" \in DOMAIN a

\* C29: the token ceiling computed from the remaining daily budget is at least
\* 5000 tokens, also when nothing remains or the day's spend is beyond the
\* ceiling, and for one prompt estimate a computation with no less remaining
\* budget than the one before gives no lower ceiling (and one with no more
\* gives no higher)
C29_CeilingMonotoneWithFloor ==
  [][IsCeiling(answer') =>
       /\ answer'.maxTokens >= 5000
       /\ (IsCeiling(answer) /\ answer.promptTokens = answer'.promptTokens) =>
            /\ answer.remainingBudget <= answer'.remainingBudget
                 => answer.maxTokens <= answer'.maxTokens
            /\ answer.remainingBudget >= answer'.remainingBudget
                 => answer.maxTokens >= answer'.maxTokens]_vars

\* the ceiling computed when the day's spend is beyond the daily ceiling
C29_Witness ==
  /\ IsCeiling(answer)
  /\ limits.daily > 0
  /\ MapGet(dailyUsage, DayOf(now)) > limits.daily
  /\ answer.remainingBudget = 0
  /\ answer.maxTokens = 5000

\* the calls run one after the other, in the order `order`, on the ledger l:
\* the ledger they leave and what each one returns
RECURSIVE OneAfterTheOther(_, _, _)
OneAfterTheOther(order, l, results) ==
  IF order = <<>> THEN [ledger |-> l, results |-> results]
  ELSE LET c == req[Head(order)]
           result == CheckResult(MapGet(l.dailyUsage, DayOf(now)),
                                 MapGet(l.taskUsage, c.taskId),
                                 c.cost, c.userConfirmed, l.limits)
       IN  OneAfterTheOther(Tail(order),
                            IF result.allowed
                            THEN RecordUsage(l, c.taskId, c.cost, now) ELSE l,
                            [results EXCEPT ![Head(order)] = result])

Orders ==
  {order \in [Requests -> Requests] : \A i, j \in Requests :
                                         order[i] = order[j] => i = j}

AllReturned == \A k \in Requests : req[k].pc = "done"

\* C30: a checkAndRecordUsage call reads the totals, decides and adds the cost
\* to the in-memory totals without being suspended in between, so that
\* overlapping calls return what they would return, and leave the in-memory
\* ledger they would leave, were they run one after the other in some order
C30_OverlappingCallsSerialize ==
  AllReturned =>
    \E order \in Orders :
      LET run == OneAfterTheOther(order,
                                  Ledger(limits, EmptyMap, EmptyMap, <<>>, Null),
                                  [k \in Requests |-> NoResult])
      IN  /\ run.ledger = Current
          /\ \A k \in Requests : run.results[k] = req[k].result

\* the second call began while the first was writing, and was stopped by what
\* the first had recorded
C30_Witness ==
  /\ AllReturned
  /\ req[1].result.allowed
  /\ req[2].during = {1}
  /\ req[2].result.needsConfirmation

\* C23: an instance constructed over storage that is absent or malformed is,
\* once its load is over, in the empty initial state: no daily totals, no task
\* totals, no history, no active task, the limits the constructor was given
C23_MalformedStorageIsEmpty ==
  [][(loadPending /\ ~touched /\ LoadComplete
        /\ (~file.exists \/ Broken(file) # "none")) =>
        /\ dailyUsage' = EmptyMap
        /\ taskUsage' = EmptyMap
        /\ usageHistory' = <<>>
        /\ currentTaskId' = Null
        /\ limits' = limits]_vars

(***************************************************************************)
(* The model gateway                                                       *)
(***************************************************************************)
Thrown == gw.pc = "done" /\ gw.outcome.kind = "thrown"

EveryModelUnavailable ==
  /\ gw.pc = "done"
  /\ gw.tier = "fallback"
  /\ gw.failedModels = Len(gw.models)
  /\ gw.onlyModelErrors

RECURSIVE Collapse(_)
\* a sequence without its immediate repetitions
Collapse(seq) ==
  IF Len(seq) <= 1 THEN seq
  ELSE IF seq[1] = seq[2] THEN Collapse(Tail(seq))
  ELSE <<seq[1]>> \o Collapse(Tail(seq))

CallsOf(m) == Len(SelectSeq(gw.calls, LAMBDA c : c = m))

\* C9 as stated: when every model of the fallback list fails with a
\* model-not-available error, createResponse throws 'No compatible model
\* available' after each model has been attempted exactly once, in list order
C9_EachModelExactlyOnce ==
  EveryModelUnavailable =>
    /\ Thrown
    /\ gw.outcome.error = NoCompatibleModel
    /\ gw.calls = gw.models

\* C9: when every model of the fallback list fails with a model-not-available
\* error, createResponse throws 'No compatible model available' after the
\* models have been attempted in list order, each one once plus at most
\* Retries retries of its transient errors
C9_EachModelInOrder ==
  EveryModelUnavailable =>
    /\ Thrown
    /\ gw.outcome.error = NoCompatibleModel
    /\ Collapse(gw.calls) = gw.models
    /\ \A i \in DOMAIN gw.models :
         CallsOf(gw.models[i]) >= 1 /\ CallsOf(gw.models[i]) <= Retries + 1

C9_Witness ==
  /\ EveryModelUnavailable
  /\ gw.models = DefaultFallbackModels
  /\ Len(gw.calls) > Len(gw.models)

\* C10: an upstream attempt that never completes is aborted when the
\* per-attempt timeout elapses, so every pass of requestWithRetry comes to an
\* end and createResponse returns or throws
C10_StuckAttemptEnds ==
  (gw.pc = "pending") ~> (gw.pc # "pending")

(***************************************************************************)
(* The conversation store                                                  *)
(***************************************************************************)
MessagesOf(id) == store.conversations[id].messages

\* C12: a conversation started with developer instructions still has that
\* developer message, with its original content, at index 0 after any number
\* of addMessage calls, whatever the history cap
C12_InstructionsStayFirst ==
  \A id \in Live(store) :
    store.started[id] # NoInstructions =>
      /\ MessagesOf(id) # <<>>
      /\ MessagesOf(id)[1].role = "developer"
      /\ MessagesOf(id)[1].content = store.started[id]
      /\ MessagesOf(id)[1].timestamp = store.conversations[id].created

\* more messages were added to the conversation than the cap holds
C12_Witness ==
  \E id \in Live(store) :
    /\ store.started[id] # NoInstructions
    /\ store.maxMessagesPerConversation = 3
    /\ Len(MessagesOf(id)) = 3
    /\ MessagesOf(id)[3].content = 4
    /\ MessagesOf(id)[1].role = "developer"

\* C14: after every addMessage call the conversation holds at most the
\* configured maximum of messages, for every maximum >= 1, pinned developer
\* message or not
C14_CountWithinMaximum ==
  store.maxMessagesPerConversation >= 1 =>
    \A id \in Live(store) :
      Len(MessagesOf(id)) <= store.maxMessagesPerConversation

LastActive(id) == store.conversations[id].lastActive

\* C15: startConversation called with the store at capacity removes exactly
\* one conversation, one whose last-active timestamp no other undercuts, and
\* adds the new one, so that the count stays at the capacity
C15_OldestRemovedAtCapacity ==
  [][(store'.ids = store.ids + 1
        /\ Cardinality(Live(store)) = store.maxConversations)
     => LET removed == Live(store) \ Live(store')
        IN  /\ Cardinality(removed) = 1
            /\ \A r \in removed : \A k \in Live(store) : LastActive(r) <= LastActive(k)
            /\ Live(store') = (Live(store) \ removed) \cup {store'.ids}
            /\ Cardinality(Live(store')) = store.maxConversations]_vars

\* the conversation started first was touched later and survives the one
\* started second
C15_Witness ==
  /\ store.maxConversations = 2
  /\ store.ids = 3
  /\ Live(store) = {1, 3}
  /\ store.conversations[1].messages # <<>>

DeveloperAt(messages) == {i \in DOMAIN messages : messages[i].role = "developer"}

\* C13: in every reachable state of the store each conversation holds at most
\* one developer message, and if it holds one it is the first message
C13_OneDeveloperFirst ==
  \A id \in Live(store) : DeveloperAt(MessagesOf(id)) \subseteq {1}

\* the last n elements of a sequence
Last(seq, n) == SubSeq(seq, Len(seq) - n + 1, Len(seq))

Min(a, b) == IF a < b THEN a ELSE b

\* the N of C16: the explicit override, else the conversation's contextLimit,
\* else the process default
WindowAsked(id, maxMessages) ==
  IF maxMessages # <<>> THEN maxMessages[1]
  ELSE IF store.conversations[id].contextLimit # 0
       THEN store.conversations[id].contextLimit
       ELSE store.contextDefault

\* C16: formatForAPI returns, in order, exactly the last min(N, k) of the k
\* non-developer messages of the conversation, followed by the new message
\* with role user when one is given
C16_LastNonDeveloperMessages ==
  (answer # <<>> /\ "query" \in DOMAIN answer /\ answer.query = "formatForAPI") =>
    LET nonDeveloper == SelectSeq(MessagesOf(answer.id),
                                  LAMBDA m : m.role # "developer")
        N == WindowAsked(answer.id, answer.maxMessages)
    IN  answer.returned =
          MapApi(Last(nonDeveloper, Min(N, Len(nonDeveloper)))) \o
            (IF answer.newMessage # <<>>
             THEN <<[role |-> "user", content |-> answer.newMessage[1]]>>
             ELSE <<>>)

\* C17: getContext(id, n) returns at most n messages; for a conversation
\* started with developer instructions and n > 1 the developer message is in
\* the result exactly once, at position 0
C17_ContextHoldsInstructionsOnce ==
  (answer # <<>> /\ "query" \in DOMAIN answer /\ answer.query = "getContext") =>
    /\ Len(answer.returned) <= answer.maxMessages
    /\ (store.started[answer.id] # NoInstructions /\ answer.maxMessages > 1) =>
         {i \in DOMAIN answer.returned :
            answer.returned[i] = MessagesOf(answer.id)[1]} = {1}

Totals(conv) == <<conv.totalCost, conv.tokenCount>>

\* C27: every updateMetadata call adds the totalCost and the tokenCount it
\* supplies to the conversation's totals and leaves a total it does not
\* supply as it was, and no other operation changes the totals: after any
\* sequence of calls the totals are the sums of the values supplied
C27_MetadataAccumulates ==
  [][\A id \in Live(store) \cap Live(store') :
       /\ \A c \in Supplied, k \in Supplied :
            UpdateMetadata(id, c, k) =>
              /\ store'.conversations[id].totalCost
                   = store.conversations[id].totalCost + Given(c)
              /\ store'.conversations[id].tokenCount
                   = store.conversations[id].tokenCount + Given(k)
              /\ c = <<>> =>
                   store'.conversations[id].totalCost
                     = store.conversations[id].totalCost
              /\ k = <<>> =>
                   store'.conversations[id].tokenCount
                     = store.conversations[id].tokenCount
       /\ (~ \E c \in Supplied, k \in Supplied : UpdateMetadata(id, c, k)) =>
            Totals(store'.conversations[id]) = Totals(store.conversations[id])]_vars

\* a conversation that got two costs and, in one call only, a token count
C27_Witness ==
  /\ 1 \in Live(store)
  /\ store.conversations[1].totalCost = 600
  /\ store.conversations[1].tokenCount = 300

\* the list the claim has after a summary that keeps n messages of before:
\* the developer message if one was first, one new assistant message, the
\* last min(n, number of the other messages) messages of before
SummarizedAsStated(before, after, n) ==
  LET dev == IF before # <<>> /\ before[1].role = "developer" THEN 1 ELSE 0
      others == Len(before) - dev
      kept == IF n < others THEN n ELSE others
  IN  /\ Len(after) = dev + 1 + kept
      /\ dev = 1 => after[1] = before[1]
      /\ after[dev + 1].role = "assistant"
      /\ \A i \in DOMAIN before : after[dev + 1] # before[i]
      /\ \A i \in 1 .. kept :
           after[dev + 1 + i] = before[Len(before) - kept + i]

\* C28: after summarize_conversation with keep_last_n = n the messages of the
\* conversation are the developer message if one was first, then exactly one
\* synthetic assistant summary, then the last min(n, number of non-developer
\* messages) messages of before, verbatim and in order
C28_SummaryKeepsLastN ==
  [][\A id \in Live(store), n \in KeepChoices :
       CallUnknownTool("summarize_conversation",
                       [conversation_id |-> id, keep_last_n |-> n])
         => SummarizedAsStated(store.conversations[id].messages,
                               store'.conversations[id].messages, n)]_vars

\* an import of what the last call, an export, returned
ImportOfExport ==
  /\ IsExport
  /\ ImportConversation(answer.returned)
  /\ store' # store

\* the conversation is stored under a new identifier, with the messages and
\* the metadata of the exported one
ImportedAsExported ==
  ImportOfExport =>
    /\ answer'.returned \notin Live(store)
    /\ answer'.returned \in Live(store')
    /\ store'.conversations[answer'.returned] = store.conversations[answer.id]

\* a text that is no exported conversation is rejected and nothing is stored
ForeignRejected ==
  \A doc \in ForeignDocuments :
    ImportConversation(doc) =>
      /\ answer' = ImportFailed(doc)
      /\ store'.conversations = store.conversations

\* C26: importConversation of what exportConversation returned stores a
\* conversation under a new identifier with the same messages (roles, contents,
\* order, timestamps) and the same metadata; a text that is not a well-formed
\* exported conversation is rejected with 'Failed to import conversation' and
\* the stored conversations stay as they were
C26_ImportRoundTripOrRejection ==
  [][ImportedAsExported /\ ForeignRejected]_vars

(***************************************************************************)
(* The handlers                                                            *)
(***************************************************************************)
\* C11: whatever the gateway throws to a single-shot request or to a turn of
\* a conversation, the handler catches it and returns an error result, which
\* carries the error's message and, for a single-shot request, the task id (for
\* a turn: the conversation id); the handler's promise never rejects
C11_GatewayErrorsReturned ==
  /\ \A r \in DOMAIN req :
       /\ req[r].handler # "rejected"
       /\ req[r].thrown # <<>> =>
            /\ req[r].handler = "returned"
            /\ req[r].reply = "error"
            /\ req[r].result.taskId = TaskOf(r)
            /\ req[r].result.text = MessageOr(req[r].thrown[1], "Failed to consult GPT-5")
  /\ \A k \in Turns :
       /\ turn[k].handler # "rejected"
       /\ turn[k].thrown # <<>> =>
            /\ turn[k].handler = "returned"
            /\ turn[k].reply = "error"
            /\ turn[k].conversation_id = turn[k].id
            /\ turn[k].error = MessageOr(turn[k].thrown[1],
                                         "Failed to continue conversation")

C11_Witness ==
  /\ \E r \in DOMAIN req : req[r].thrown = <<NoCompatibleModel>>
  /\ \E k \in Turns : turn[k].thrown = <<Unexplained>> /\ turn[k].pc = "done"

\* C18: a turn of a conversation with budget B and accumulated cost C that
\* arrives when the remainder max(0, B - C) is at or below 10% of B is not
\* sent to the gateway (no turn is confirmed: continue_conversation takes no
\* confirm_spending)
C18_TurnWithinConversationBudget ==
  \A k \in Turns :
    (turn[k].sent /\ turn[k].budgetLimit > 0) =>
      LET remaining == IF turn[k].budgetLimit > turn[k].totalCost
                       THEN turn[k].budgetLimit - turn[k].totalCost ELSE 0
      IN  ~(remaining * 100 <= turn[k].budgetLimit * ConfirmThresholdPercent)
(***************************************************************************)
(* The digest of the attached resources                                    *)
(***************************************************************************)
Max(S) == CHOOSE x \in S : \A y \in S : y <= x

Entries(meta) ==
  {meta.resources[i] : i \in 1 .. Len(meta.resources)}
    \cup {meta.content[i].resource : i \in 1 .. Len(meta.content)}

\* the largest overhead of one resource of the payload, in tokens: its header
\* and footer, with the truncation notice counted in
Overhead(meta) ==
  Max({EstimateTokenCount(Concat(AttachedHeader, AttachedFooter))}
        \cup {EstimateTokenCount(Concat(Header(r), Footer)) : r \in Entries(meta)})
    + EstimateTokenCount(TruncationNotice)

Included(list) ==
  {digest.pieces[p].index : p \in {q \in 1 .. Len(digest.pieces) :
       digest.pieces[q].list = list
         /\ digest.pieces[q].part \in {"resource", "reference"}}}

DigestTokens == EstimateTokenCount(Joined(digest.pieces))

InArrivalOrder ==
  \A p, q \in 1 .. Len(digest.pieces) :
    p < q =>
      \/ digest.pieces[p].list = digest.pieces[q].list
           /\ digest.pieces[p].index <= digest.pieces[q].index
      \/ digest.pieces[p].list = "resources" /\ digest.pieces[q].list = "content"

\* C19: the digest's estimated tokens exceed the ceiling by at most one
\* resource's header/footer overhead (the truncation notice is allowed for as
\* well), it holds no more resources than the maximum count, and they are in
\* their order of arrival
C19_DigestWithinCeilings ==
  digest.pc = "done" =>
    /\ DigestTokens <= digest.maxTokens + Overhead(digest.meta)
    /\ Cardinality(Included("resources")) + Cardinality(Included("content"))
         + Cardinality(Included("text")) <= ResourceMaxCount
    /\ InArrivalOrder

\* what the payload asks for: every entry's header, body and footer, counted
\* at three characters a token
Wanted(r) ==
  IF ~r.given THEN 0
  ELSE IF r.text.len + r.content.len > 0
       THEN Header(r).len + r.text.len + r.content.len + Footer.len
       ELSE FileReference(r).len

RECURSIVE Demand(_)
Demand(entries) ==
  IF entries = <<>> THEN 0
  ELSE Wanted(entries[1]) + AttachedHeader.len + AttachedFooter.len
         + Demand(Tail(entries))

ItemEntries(content) ==
  [i \in 1 .. Len(content) |->
     IF content[i].type = "text"
     THEN Resource(Absent, Absent, content[i].text, Absent)
     ELSE content[i].resource]

\* the payload stays clear of the caps: no more entries than the maximum
\* count, and room for all of them under the ceiling
WithinCaps(meta, maxTokens) ==
  /\ Len(meta.resources) + Len(meta.content) <= ResourceMaxCount
  /\ (Demand(meta.resources) + Demand(ItemEntries(meta.content))) \div 3
       + 100 + Overhead(meta) < maxTokens

Usable(r) == r.given /\ r.text.len + r.content.len + r.uri.len > 0

\* C20: an entry that throws is skipped and the others, also the later ones,
\* are still in the digest (when the caps leave room for them)
C20_OthersStillProcessed ==
  (digest.pc = "done" /\ WithinCaps(digest.meta, digest.maxTokens)) =>
    /\ \A i \in 1 .. Len(digest.meta.resources) :
         Usable(digest.meta.resources[i]) => i \in Included("resources")
    /\ \A i \in 1 .. Len(digest.meta.content) :
         (digest.meta.content[i].given
            /\ Usable(ItemEntries(digest.meta.content)[i])) => i \in Included("content")

(***************************************************************************)
(* Requests in flight together                                             *)
(***************************************************************************)
\* C31: while the model call of a request is in flight the ledger holds, for
\* the request's task, the estimate its pre-flight check recorded and nothing
\* of what the call will cost, so that the pre-flight check of another request
\* passes on the estimates alone: two unconfirmed requests can both pass it
\* before either records its actual usage, both calls are made, and their
\* actual costs together exceed what remained of the daily ceiling
C31_OnlyEstimatesWhileInFlight ==
  \A r \in Requests :
    req[r].pc = "calling" =>
      MapGet(taskUsage, TaskOf(r))
        = (IF req[r].preCheck.allowed THEN req[r].estimate ELSE 0)

\* both requests, unconfirmed, passed the pre-flight check (the first two
\* records are their estimates) before the first actual cost was recorded, both
\* calls returned, and the two actual costs exceed the whole daily ceiling
C31_Witness ==
  /\ \A r \in {1, 2} :
       /\ req[r].pc = "done" /\ req[r].reply = "response"
       /\ ~req[r].confirm /\ req[r].preCheck.allowed
  /\ Len(usageHistory) >= 3
  /\ usageHistory[1].taskId # usageHistory[2].taskId
  /\ usageHistory[1].cost = req[1].estimate \/ usageHistory[1].cost = req[2].estimate
  /\ usageHistory[3].cost \in {req[1].actual, req[2].actual}
  /\ limits.daily > 0
  /\ req[1].actual + req[2].actual > limits.daily

\* the statuses the claim has retried: 429 and 500 to 599
TransientStatus(status) == status = 429 \/ (status >= 500 /\ status <= 599)

\* C32: requestWithRetry calls upstream again only after a failure with status
\* 429 or 500-599 and only while fewer than `retries` repeats were made, so
\* that a model gets at most retries + 1 attempts; an attempt begins only once
\* the one before it has failed and the delay has passed; a failure with
\* another status, or with none, goes to the caller's catch at once, after
\* exactly one attempt when it is the first failure
C32_RetryOnlyTransient ==
  [][
    /\ \A err \in UpstreamErrors :
         AttemptRejects(err) =>
           (/\ (gw'.pc = "backoff") =>
                 (TransientStatus(err.status) /\ gw.attempt < Retries)
            /\ (~TransientStatus(err.status)) =>
                 (/\ gw'.pc # "backoff"
                  /\ gw'.primaryFailed
                  /\ (gw.tier = "fallback") =>
                       (gw'.failedModels = gw.failedModels + 1)
                  /\ (gw.attempt = 0 /\ gw.tier = "primary") =>
                       (gw.primaryCalls = 1)))
    /\ BackoffElapses =>
         (/\ gw.pc = "backoff" /\ gw'.pc = "pending"
          /\ gw'.attempt = gw.attempt
          /\ (gw.tier = "primary") =>
               (gw'.primaryCalls = gw.primaryCalls + 1))
    /\ (gw'.pc = "pending") => (gw'.attempt <= Retries)
    /\ gw'.primaryCalls <= Retries + 1
  ]_vars

\* the last attempt the primary request is given: the one after `retries`
\* transient failures
C32_Witness ==
  /\ gw.pc = "pending"
  /\ gw.tier = "primary"
  /\ gw.attempt = Retries
  /\ gw.primaryCalls = Retries + 1

\* C33: in the fallback chain a model that fails with a model-not-available
\* error (404) or, its retries used up, with a transient one (429, 5xx) is
\* followed by a call of the next model of the list; the first failure of
\* another kind ends the chain, that error is thrown to the caller and no
\* later model is called; the first model that succeeds serves the call and
\* no later model is called
C33_ChainEndsOnOtherFailure ==
  [][
    /\ \A err \in ChainErrors :
         (/\ gw.tier = "fallback"
          /\ AttemptRejects(err) \/ StreamFails(err)
          /\ gw'.pc # "backoff") =>
           IF err.status = 404 \/ TransientStatus(err.status)
           THEN /\ gw'.model = gw.model + 1
                /\ (gw.model < Len(gw.models)) =>
                     (/\ gw'.pc = "pending"
                      /\ gw'.calls = Append(gw.calls, gw.models[gw.model + 1]))
           ELSE /\ gw'.pc = "done"
                /\ gw'.outcome = [kind |-> "thrown", error |-> err]
                /\ gw'.calls = gw.calls
    /\ (/\ gw.tier = "fallback"
        /\ gw'.pc = "done"
        /\ AttemptResolves \/ StreamEnds) =>
         (gw'.outcome.kind = "returned" /\ gw'.calls = gw.calls)
    /\ (gw.pc = "done") => (gw'.calls = gw.calls)
  ]_vars

\* C34: when the gateway has returned a result for a request, the handler
\* returns with the actual cost in the ledger: a usage record of the task
\* with that cost is added, and the totals of the day and of the task have
\* grown by it, whatever is left of the day or of the task's ceiling
C34_ActualCostInLedger ==
  [][\A r \in Requests, c \in ActualCosts :
       ConsultRespond(r, c) =>
         /\ usageHistory' =
              Append(usageHistory,
                     [timestamp |-> now, taskId |-> TaskOf(r), cost |-> c])
         /\ MapGet(taskUsage', TaskOf(r)) = MapGet(taskUsage, TaskOf(r)) + c
         /\ MapGet(dailyUsage', DayOf(now)) = MapGet(dailyUsage, DayOf(now)) + c
    ]_vars

\* C35: a checkAndRecordUsage call that returns allowed = false, because it
\* needs confirmation or because of the runaway block, leaves the daily
\* totals, the task totals, the usage history, the active task id and the
\* persisted file as they were
C35_RefusalChangesNothing ==
  [][\A t \in TaskIds, c \in WarningCosts, u \in BOOLEAN :
       (CheckAndRecordUsage(t, c, u) /\ ~lastCall'.result.allowed) =>
         UNCHANGED <<dailyUsage, taskUsage, usageHistory, currentTaskId, limits,
                     file, persisted>>
    ]_vars

\* the runaway block has just refused a call on a ledger that holds usage
\* and has been written to its file
C35_Witness ==
  /\ lastCall.valid
  /\ ~lastCall.result.allowed
  /\ ~lastCall.result.needsConfirmation
  /\ usageHistory # <<>>
  /\ file.exists

\* the user message a call of continue_conversation handed to the gateway:
\* the last of its input
MessageOf(t) == t.input[Len(t.input)]

\* C36: a continue_conversation call that has ended without an assistant
\* reply has left the conversation's messages as they were before it: its
\* user message is not among them, so that a repeated call puts it there once
C36_FailedTurnLeavesMessages ==
  \A k \in Turns :
    (/\ turn[k].pc = "done"
     /\ turn[k].reply = "error"
     /\ turn[k].sent
     /\ turn[k].input # <<>>
     /\ turn[k].id \in Live(store)) =>
      \A i \in DOMAIN store.conversations[turn[k].id].messages :
        LET m == store.conversations[turn[k].id].messages[i]
        IN  ~(m.role = "user" /\ m.content = MessageOf(turn[k]).content)

\* the usage records of a history
Records(history) == {history[i] : i \in DOMAIN history}

\* C37: when the initial load completes, the ledger reflects what was
\* persisted (the stored record of task-1 and its cost in the day's total)
\* and what was done since the constructor: every record made meanwhile is in
\* the history, the totals include its cost, and a ceiling updated meanwhile
\* keeps its value
C37_LoadKeepsEarlierOperations ==
  [][\A doc \in {StoredUsage, file} :
       LoadCompleteFrom(doc) =>
         /\ Records(usageHistory) \subseteq Records(usageHistory')
         /\ [timestamp |-> 0, taskId |-> "task-1", cost |-> 300]
              \in Records(usageHistory')
         /\ MapGet(dailyUsage', DayOf(now)) = 300 + MapGet(dailyUsage, DayOf(now))
         /\ MapGet(taskUsage', "task-1") = 300
         /\ MapGet(taskUsage', "task-2") = MapGet(taskUsage, "task-2")
         /\ \A f \in DOMAIN limits :
              (limits[f] # DefaultLimits[f]) => (limits'[f] = limits[f])
    ]_vars

C39_TaskBudgetIsTemporary ==
  (\A r \in Requests : req[r].pc \in {"idle", "done"}) =>
    /\ limits.perTask = ServerLimits.perTask
    /\ file.exists => file.limits.perTask = ServerLimits.perTask

\* C40: after set_conversation_options with context_limit = K on a
\* conversation every later continue_conversation on it hands at most K
\* history messages to the gateway, and the set_conversation_options call
\* itself starts no turn and changes neither the messages nor the
\* accumulated cost of the conversation
C40_ContextLimitHonoured ==
  [][\A K \in ContextChoices :
       /\ \A k \in Turns :
            (/\ answer = UnknownTool("set_conversation_options",
                                     SetConversationOptionsArgs(1, K))
             /\ ContinueStart(k, 1)) =>
              (Len(turn'[k].input) <= K)
       /\ (/\ 1 \in Live(store)
           /\ CallUnknownTool("set_conversation_options",
                              SetConversationOptionsArgs(1, K))) =>
            /\ turn' = turn /\ gw' = gw
            /\ store'.conversations[1].messages = store.conversations[1].messages
            /\ store'.conversations[1].totalCost = store.conversations[1].totalCost
    ]_vars
====
